---- MODULE Spec2Model ----
(***************************************************************************)
(* Model of the candidate-field extraction pipeline of the resume parser   *)
(* (src/services/resumeParser.js, src/services/aiResumeExtractor.js and    *)
(* the variant extractors of src/utils/textExtractor.js, src/index.js).    *)
(*                                                                         *)
(* Texts are TLA+ strings; a character is a string of length one.  The    *)
(* JavaScript regular expressions of the source are written as trees and   *)
(* run by a backtracking matcher with JavaScript's priorities (leftmost    *)
(* start, greedy quantifiers, alternatives left to right).                 *)
(***************************************************************************)
EXTENDS Integers, Sequences, FiniteSets, TLC

(***************************************************************************)
(* Calls between the modelled functions go through one recursive operator, *)
(* Invoke, which picks the function by name as a call on an object does.   *)
(* TLC then expands the definition of each function once, however many     *)
(* places call it.  this_f is a call of the method f on its own object,     *)
(* aiExtractor_f a call on the imported extractor; the other operators      *)
(* here are the built-in functions of the language.                         *)
(***************************************************************************)
RECURSIVE Invoke(_, _)

test(re, fl, s) == Invoke("test", <<re, fl, s>>)
exec(re, fl, s) == Invoke("exec", <<re, fl, s>>)
matchAll(re, fl, s) == Invoke("matchAll", <<re, fl, s>>)
replaceAll(s, re, fl, by) == Invoke("replaceAll", <<s, re, fl, by>>)
replaceFirst(s, re, fl, by) == Invoke("replaceFirst", <<s, re, fl, by>>)
splitRe(s, re, fl) == Invoke("splitRe", <<s, re, fl>>)
SearchFrom(s, fl, re, p) == Invoke("SearchFrom", <<s, fl, re, p>>)
parseInt(s) == Invoke("parseInt", <<s>>)
parseFloat(s) == Invoke("parseFloat", <<s>>)
this_isValidEmail(email) == Invoke("isValidEmail", <<email>>)
this_isValidPhone(phone) == Invoke("isValidPhone", <<phone>>)
this_isValidExperience(experience) == Invoke("isValidExperience", <<experience>>)
this_isValidLinkedIn(url) == Invoke("isValidLinkedIn", <<url>>)
this_mergeAndDedupSkills(aiSkills, ruleBasedSkills, limit) == Invoke("mergeAndDedupSkills", <<aiSkills, ruleBasedSkills, limit>>)
this_normalizeText(t) == Invoke("normalizeText", <<t>>)
this_extractNameEnhanced(t) == Invoke("extractNameEnhanced", <<t>>)
this_isJobTitle(t) == Invoke("isJobTitle", <<t>>)
this_isCompanyOrInstitution(t) == Invoke("isCompanyOrInstitution", <<t>>)
this_isValidName(t) == Invoke("isValidName", <<t>>)
this_formatName(name) == Invoke("formatName", <<name>>)
this_extractExperienceEnhanced(t, now) == Invoke("extractExperienceEnhanced", <<t, now>>)
this_extractEmail(t) == Invoke("extractEmail", <<t>>)
this_extractPhone(t) == Invoke("extractPhone", <<t>>)
this_cleanPhone(phone) == Invoke("cleanPhone", <<phone>>)
this_extractLinkedIn(t) == Invoke("extractLinkedIn", <<t>>)
this_extractAdditionalFields(t) == Invoke("extractAdditionalFields", <<t>>)
this_extractEducation(t) == Invoke("extractEducation", <<t>>)
this_extractLocation(t) == Invoke("extractLocation", <<t>>)
this_extractCurrentRole(t) == Invoke("extractCurrentRole", <<t>>)
this_extractSummary(t) == Invoke("extractSummary", <<t>>)
this_extractProjects(t) == Invoke("extractProjects", <<t>>)
this_extractCompanies(t) == Invoke("extractCompanies", <<t>>)
this_extractDateRanges(t) == Invoke("extractDateRanges", <<t>>)
this_extractExperienceWithAI(t, now) == Invoke("extractExperienceWithAI", <<t, now>>)
this_isNonNameLine(line) == Invoke("isNonNameLine", <<line>>)
this_extractNameWithAI(t) == Invoke("extractNameWithAI", <<t>>)
this_findSkillContexts(t, skill) == Invoke("findSkillContexts", <<t, skill>>)
this_extractSkillsWithAI(t, isPrimary) == Invoke("extractSkillsWithAI", <<t, isPrimary>>)
aiExtractor_parseAIResponse(response) == Invoke("parseAIResponse", <<response>>)
aiExtractor_extractCandidateInfoAI(response) == Invoke("extractCandidateInfoAI", <<response>>)

(***************************************************************************)
(* Characters and character classes                                        *)
(***************************************************************************)
UpperSeq == "ABCDEFGHIJKLMNOPQRSTUVWXYZ"
LowerSeq == "abcdefghijklmnopqrstuvwxyz"
DigitSeq == "0123456789"

CharsOf(s) == {SubSeq(s, k, k) : k \in 1..Len(s)}

UpperCh == CharsOf(UpperSeq)
LowerCh == CharsOf(LowerSeq)
DigitCh == CharsOf(DigitSeq)
LetterCh == UpperCh \cup LowerCh
\* \w and \s of a JavaScript regular expression
WordCh == LetterCh \cup DigitCh \cup {"_"}
SpaceCh == {" ", "\t", "\n", "\r"}
LineEnd == {"\n", "\r"}

\* JavaScript null / undefined of a string-valued field
Null == "<null>"

PosIn(seq, c) == CHOOSE k \in 1..Len(seq) : SubSeq(seq, k, k) = c

LowerOfCh(c) == IF c \in UpperCh THEN SubSeq(LowerSeq, PosIn(UpperSeq, c), PosIn(UpperSeq, c)) ELSE c
UpperOfCh(c) == IF c \in LowerCh THEN SubSeq(UpperSeq, PosIn(LowerSeq, c), PosIn(LowerSeq, c)) ELSE c

\* (recursions over a text split it in halves, which keeps them shallow)
RECURSIVE toLowerCase(_)
toLowerCase(s) ==
    IF Len(s) = 0 THEN ""
    ELSE IF Len(s) = 1 THEN LowerOfCh(s)
    ELSE toLowerCase(SubSeq(s, 1, Len(s) \div 2))
            \o toLowerCase(SubSeq(s, Len(s) \div 2 + 1, Len(s)))

RECURSIVE toUpperCase(_)
toUpperCase(s) ==
    IF Len(s) = 0 THEN ""
    ELSE IF Len(s) = 1 THEN UpperOfCh(s)
    ELSE toUpperCase(SubSeq(s, 1, Len(s) \div 2))
            \o toUpperCase(SubSeq(s, Len(s) \div 2 + 1, Len(s)))

\* String.prototype.includes, startsWith, indexOf (0 when absent, else 1-based)
RECURSIVE IndexIn(_, _, _, _)
IndexIn(s, sub, lo, hi) ==
    IF lo > hi THEN 0
    ELSE IF lo = hi
         THEN (IF SubSeq(s, lo, lo + Len(sub) - 1) = sub THEN lo ELSE 0)
    ELSE LET mid == (lo + hi) \div 2
             left == IndexIn(s, sub, lo, mid)
         IN  IF left > 0 THEN left ELSE IndexIn(s, sub, mid + 1, hi)

indexOf(s, sub) == IndexIn(s, sub, 1, Len(s) - Len(sub) + 1)
includes(s, sub) == indexOf(s, sub) > 0
startsWith(s, sub) == Len(s) >= Len(sub) /\ SubSeq(s, 1, Len(sub)) = sub

\* String.prototype.trim
Positions(s) == [k \in 1..Len(s) |-> k]
NonSpaceAt(s) == SelectSeq(Positions(s), LAMBDA k : SubSeq(s, k, k) \notin SpaceCh)

trim(s) ==
    LET ns == NonSpaceAt(s)
    IN  IF Len(ns) = 0 THEN "" ELSE SubSeq(s, ns[1], ns[Len(ns)])

\* String.prototype.split on one separator character: the pieces, in order
split(s, sep) ==
    LET at == SelectSeq(Positions(s), LAMBDA k : SubSeq(s, k, k) = sep)
    IN  [j \in 1..(Len(at) + 1) |->
            SubSeq(s, IF j = 1 THEN 1 ELSE at[j - 1] + 1,
                      IF j = Len(at) + 1 THEN Len(s) ELSE at[j] - 1)]

\* Array.prototype.join
RECURSIVE join(_, _)
join(a, sep) ==
    IF Len(a) = 0 THEN ""
    ELSE IF Len(a) = 1 THEN a[1]
    ELSE join(SubSeq(a, 1, Len(a) \div 2), sep) \o sep
            \o join(SubSeq(a, Len(a) \div 2 + 1, Len(a)), sep)

(***************************************************************************)
(* Regular expressions: trees                                               *)
(***************************************************************************)
Set(S) == [t |-> "set", s |-> S]
NSet(S) == [t |-> "nset", s |-> S]
Lit(x) == [t |-> "lit", s |-> x]
Cat(a) == [t |-> "cat", a |-> a]
Alt(a) == [t |-> "alt", a |-> a]
Rep(r, lo, hi) == [t |-> "rep", r |-> r, min |-> lo, max |-> hi, lazy |-> FALSE]
Lazy(r, lo, hi) == [t |-> "rep", r |-> r, min |-> lo, max |-> hi, lazy |-> TRUE]
Plus(r) == Rep(r, 1, 9999)
Star(r) == Rep(r, 0, 9999)
Opt(r) == Rep(r, 0, 1)
Grp(k, r) == [t |-> "grp", n |-> k, r |-> r]
Bol == [t |-> "bol"]
Eol == [t |-> "eol"]
Wb == [t |-> "wb"]
NotAhead(r) == [t |-> "nla", r |-> r]
Dot == NSet(LineEnd)

\* flags of a regular expression: i (ignore case), m (multiline)
Flags(i, m) == [i |-> i, m |-> m]

NoCaps == [k \in 1..4 |-> <<0, 0>>]
NoMatch == [ok |-> FALSE, b |-> 0, e |-> 0, g |-> NoCaps]

InClass(c, S, fl) == c \in S \/ (fl.i /\ (LowerOfCh(c) \in S \/ UpperOfCh(c) \in S))

OneChar(s, fl, r, i) ==
    /\ i <= Len(s)
    /\ IF r.t = "set" THEN InClass(SubSeq(s, i, i), r.s, fl)
       ELSE ~InClass(SubSeq(s, i, i), r.s, fl)

\* how many characters from position i on, at most hi, are of the class r
RECURSIVE RunIn(_, _, _, _, _)
RunIn(s, fl, r, i, len) ==
    IF len <= 0 THEN 0
    ELSE IF len = 1 THEN (IF OneChar(s, fl, r, i) THEN 1 ELSE 0)
    ELSE LET h == len \div 2
             a == RunIn(s, fl, r, i, h)
         IN  IF a < h THEN a ELSE h + RunIn(s, fl, r, i + h, len - h)

RunLen(s, fl, r, i, hi) ==
    RunIn(s, fl, r, i, IF hi < Len(s) - i + 1 THEN hi ELSE Len(s) - i + 1)

IsWordAt(s, i) == i >= 1 /\ i <= Len(s) /\ SubSeq(s, i, i) \in WordCh

LitAt(s, fl, x, i) ==
    /\ i + Len(x) - 1 <= Len(s)
    /\ \A k \in 1..Len(x) :
          \/ SubSeq(s, i + k - 1, i + k - 1) = SubSeq(x, k, k)
          \/ (fl.i /\ LowerOfCh(SubSeq(s, i + k - 1, i + k - 1)) = LowerOfCh(SubSeq(x, k, k)))

(***************************************************************************)
(* The matcher.  M(s, fl, st, i, g): match the trees of the stack st one    *)
(* after another from position i of s; the first success in backtracking   *)
(* order, with the captured groups g (<<begin, end>>, end exclusive).      *)
(***************************************************************************)
RECURSIVE M(_, _, _, _, _)
RECURSIVE TryDown(_, _, _, _, _, _, _)
RECURSIVE TryUp(_, _, _, _, _, _, _)

\* a greedy run of lo..hi characters: the longest length whose rest matches
TryDown(s, fl, rest, i, g, lo, hi) ==
    IF lo > hi THEN NoMatch
    ELSE LET x == M(s, fl, rest, i + hi, g)
             y == TryDown(s, fl, rest, i, g, (lo + hi) \div 2, hi - 1)
         IN  IF x.ok THEN x
             ELSE IF y.ok THEN y
             ELSE TryDown(s, fl, rest, i, g, lo, (lo + hi) \div 2 - 1)

\* a lazy run: the shortest length whose rest matches
TryUp(s, fl, rest, i, g, lo, hi) ==
    IF lo > hi THEN NoMatch
    ELSE LET x == M(s, fl, rest, i + lo, g)
             y == TryUp(s, fl, rest, i, g, lo + 1, (lo + hi + 1) \div 2)
         IN  IF x.ok THEN x
             ELSE IF y.ok THEN y
             ELSE TryUp(s, fl, rest, i, g, (lo + hi + 1) \div 2 + 1, hi)

\* one more round of a repeated tree r (then r again), with a check that the
\* round consumed something, as JavaScript ends a loop on an empty round
Again(r, i) ==
    <<r.r, [t |-> "chk", p |-> i],
      [r EXCEPT !.min = IF @ > 0 THEN @ - 1 ELSE 0, !.max = @ - 1]>>

M(s, fl, st, i, g) ==
    CASE Len(st) = 0 -> [ok |-> TRUE, b |-> 0, e |-> i, g |-> g]
      [] Len(st) > 0 /\ st[1].t \in {"set", "nset"} ->
            IF OneChar(s, fl, st[1], i) THEN M(s, fl, Tail(st), i + 1, g) ELSE NoMatch
      [] Len(st) > 0 /\ st[1].t = "lit" ->
            IF LitAt(s, fl, st[1].s, i) THEN M(s, fl, Tail(st), i + Len(st[1].s), g)
            ELSE NoMatch
      [] Len(st) > 0 /\ st[1].t = "cat" -> M(s, fl, st[1].a \o Tail(st), i, g)
      [] Len(st) > 0 /\ st[1].t = "alt" ->
            IF Len(st[1].a) = 0 THEN NoMatch
            ELSE LET x == M(s, fl, <<Head(st[1].a)>> \o Tail(st), i, g)
                 IN  IF x.ok THEN x ELSE M(s, fl, <<Alt(Tail(st[1].a))>> \o Tail(st), i, g)
      [] Len(st) > 0 /\ st[1].t = "rep" /\ st[1].r.t \in {"set", "nset"} ->
            IF st[1].lazy
            THEN TryUp(s, fl, Tail(st), i, g, st[1].min, RunLen(s, fl, st[1].r, i, st[1].max))
            ELSE TryDown(s, fl, Tail(st), i, g, st[1].min, RunLen(s, fl, st[1].r, i, st[1].max))
      [] Len(st) > 0 /\ st[1].t = "rep" /\ st[1].r.t \notin {"set", "nset"} ->
            LET again == IF st[1].max > 0 THEN M(s, fl, Again(st[1], i) \o Tail(st), i, g)
                         ELSE NoMatch
                stop == IF st[1].min <= 0 THEN M(s, fl, Tail(st), i, g) ELSE NoMatch
            IN  IF st[1].lazy THEN (IF stop.ok THEN stop ELSE again)
                ELSE (IF again.ok THEN again ELSE stop)
      [] Len(st) > 0 /\ st[1].t = "chk" ->
            IF i > st[1].p THEN M(s, fl, Tail(st), i, g) ELSE NoMatch
      [] Len(st) > 0 /\ st[1].t = "grp" ->
            M(s, fl, <<st[1].r, [t |-> "cap", n |-> st[1].n, p |-> i]>> \o Tail(st), i, g)
      [] Len(st) > 0 /\ st[1].t = "cap" ->
            M(s, fl, Tail(st), i, [g EXCEPT ![st[1].n] = <<st[1].p, i>>])
      [] Len(st) > 0 /\ st[1].t = "bol" ->
            IF i = 1 \/ (fl.m /\ SubSeq(s, i - 1, i - 1) \in LineEnd)
            THEN M(s, fl, Tail(st), i, g) ELSE NoMatch
      [] Len(st) > 0 /\ st[1].t = "eol" ->
            IF i = Len(s) + 1 \/ (fl.m /\ SubSeq(s, i, i) \in LineEnd)
            THEN M(s, fl, Tail(st), i, g) ELSE NoMatch
      [] Len(st) > 0 /\ st[1].t = "wb" ->
            IF IsWordAt(s, i - 1) # IsWordAt(s, i)
            THEN M(s, fl, Tail(st), i, g) ELSE NoMatch
      [] Len(st) > 0 /\ st[1].t = "nla" ->
            IF M(s, fl, <<st[1].r>>, i, g).ok THEN NoMatch ELSE M(s, fl, Tail(st), i, g)

\* the leftmost match of re in s that starts at position p or later
RECURSIVE SearchIn(_, _, _, _, _)
SearchIn(s, fl, re, lo, hi) ==
    IF lo > hi THEN NoMatch
    ELSE IF lo = hi
         THEN LET x == M(s, fl, <<re>>, lo, NoCaps)
              IN  IF x.ok THEN [x EXCEPT !.b = lo] ELSE NoMatch
    ELSE LET mid == (lo + hi) \div 2
             x == SearchIn(s, fl, re, lo, mid)
         IN  IF x.ok THEN x ELSE SearchIn(s, fl, re, mid + 1, hi)

RegExp_SearchFrom(s, fl, re, p) == SearchIn(s, fl, re, p, Len(s) + 1)

\* RegExp.prototype.test, and String.prototype.match without the g flag
RegExp_test(re, fl, s) == SearchFrom(s, fl, re, 1).ok
RegExp_exec(re, fl, s) == SearchFrom(s, fl, re, 1)

\* the text of a match, and of its k-th group (Null when the group took no part)
Whole(s, m) == SubSeq(s, m.b, m.e - 1)
Group(s, m, k) == IF m.g[k] = <<0, 0>> THEN Null ELSE SubSeq(s, m.g[k][1], m.g[k][2] - 1)

\* every match of a g-flagged expression, in order (a loop of exec, matchAll,
\* or String.prototype.match with the g flag)
RECURSIVE AllFrom(_, _, _, _)
AllFrom(s, fl, re, p) ==
    LET x == SearchFrom(s, fl, re, p)
    IN  IF ~x.ok THEN <<>>
        ELSE <<x>> \o AllFrom(s, fl, re, IF x.e = x.b THEN x.e + 1 ELSE x.e)

String_matchAll(re, fl, s) == AllFrom(s, fl, re, 1)

\* String.prototype.replace(/re/g, by) for a fixed replacement text
RECURSIVE ReplaceFrom(_, _, _, _, _)
ReplaceFrom(s, fl, re, by, p) ==
    LET x == SearchFrom(s, fl, re, p)
    IN  IF ~x.ok THEN SubSeq(s, p, Len(s))
        ELSE IF x.e = x.b
             THEN SubSeq(s, p, x.b - 1) \o by \o SubSeq(s, x.b, x.b)
                     \o (IF x.b > Len(s) THEN "" ELSE ReplaceFrom(s, fl, re, by, x.b + 1))
             ELSE SubSeq(s, p, x.b - 1) \o by \o ReplaceFrom(s, fl, re, by, x.e)

String_replaceAll(s, re, fl, by) == ReplaceFrom(s, fl, re, by, 1)

\* String.prototype.split on a regular expression that matches no empty text
String_splitRe(s, re, fl) ==
    LET at == matchAll(re, fl, s)
    IN  [j \in 1..(Len(at) + 1) |->
            SubSeq(s, IF j = 1 THEN 1 ELSE at[j - 1].e,
                      IF j = Len(at) + 1 THEN Len(s) ELSE at[j].b - 1)]

\* Array.prototype.map and filter
Map(a, F(_)) == [k \in 1..Len(a) |-> F(a[k])]
NonEmpty(a) == SelectSeq(a, LAMBDA x : Len(x) > 0)

\* the least number of a non-empty set of numbers
Least(S) == CHOOSE x \in S : \A y \in S : x <= y
MinOf(a, b) == IF a < b THEN a ELSE b

NoFlags == Flags(FALSE, FALSE)
IgnoreCase == Flags(TRUE, FALSE)
Multiline == Flags(FALSE, TRUE)

Spaces == Plus(Set(SpaceCh))

(***************************************************************************)
(* src/services/resumeParser.js: validity predicates of the merge           *)
(***************************************************************************)
\* /^[^\s@]+@[^\s@]+\.[^\s@]+$/
ReValidEmail ==
    Cat(<<Bol, Plus(NSet(SpaceCh \cup {"@"})), Lit("@"), Plus(NSet(SpaceCh \cup {"@"})),
          Lit("."), Plus(NSet(SpaceCh \cup {"@"})), Eol>>)

isValidEmail(email) == email # Null /\ email # "" /\ test(ReValidEmail, NoFlags, email)

\* /^[\d\+\-\(\)\s]{10,20}$/
ReValidPhone ==
    Cat(<<Bol, Rep(Set(DigitCh \cup {"+", "-", "(", ")"} \cup SpaceCh), 10, 20), Eol>>)

isValidPhone(phone) == phone # Null /\ phone # "" /\ test(ReValidPhone, NoFlags, phone)

isValidLinkedIn(url) == url # Null /\ url # "" /\ includes(toLowerCase(url), "linkedin.com/in/")

(***************************************************************************)
(* src/services/resumeParser.js: normalizeText and the name extractor      *)
(***************************************************************************)
\* as normalizeText, the empty lines kept
normalizeTextKeepingLines(t) ==
    LET unified == replaceAll(replaceAll(t, Lit("\r\n"), NoFlags, "\n"), Lit("\r"), NoFlags, "\n")
        lines == Map(split(unified, "\n"),
                     LAMBDA line : trim(replaceAll(line, Spaces, NoFlags, " ")))
    IN  join(lines, "\n")

normalizeText(t) ==
    LET unified == replaceAll(replaceAll(t, Lit("\r\n"), NoFlags, "\n"), Lit("\r"), NoFlags, "\n")
        lines == NonEmpty(Map(split(unified, "\n"),
                              LAMBDA line : trim(replaceAll(line, Spaces, NoFlags, " "))))
    IN  join(lines, "\n")

Capitalize(w) ==
    IF Len(w) = 0 THEN ""
    ELSE toUpperCase(SubSeq(w, 1, 1)) \o toLowerCase(SubSeq(w, 2, Len(w)))

formatName(name) ==
    LET letters == replaceAll(name, NSet(LetterCh \cup SpaceCh), NoFlags, "")
        single == replaceAll(trim(letters), Spaces, NoFlags, " ")
    IN  join(Map(split(single, " "), Capitalize), " ")

titleKeywords ==
    <<"engineer", "developer", "manager", "analyst", "consultant", "intern", "trainee",
      "test", "tester", "director", "lead", "associate", "officer", "specialist",
      "architect", "president", "vp", "vice", "owner">>

isJobTitle(t) ==
    /\ t # Null /\ t # ""
    /\ \E k \in 1..Len(titleKeywords) :
          test(Cat(<<Wb, Lit(titleKeywords[k]), Wb>>), IgnoreCase, toLowerCase(t))

institutionKeywords ==
    <<"institute", "university", "college", "school", "academy", "center",
      "technology", "solutions", "services", "company", "corporation", "ltd",
      "systems", "group", "association", "foundation", "organization",
      "annamacharya", "inu technology", "tech solutions">>

isCompanyOrInstitution(t) ==
    \E k \in 1..Len(institutionKeywords) : includes(toLowerCase(t), institutionKeywords[k])

OnlyLetters(w) == Len(w) > 0 /\ \A k \in 1..Len(w) : SubSeq(w, k, k) \in LetterCh

isValidName(t) ==
    LET words == splitRe(trim(t), Spaces, NoFlags)
        longWords == SelectSeq(words, LAMBDA w : Len(w) >= 2 /\ OnlyLetters(w))
        shortLetterWords == SelectSeq(words, LAMBDA w : Len(w) = 1 /\ OnlyLetters(w))
    IN  IF Len(words) < 2 \/ Len(words) > 4 THEN FALSE
        ELSE IF \E k \in 1..Len(words) : ~OnlyLetters(words[k]) THEN FALSE
        ELSE \/ Len(longWords) = Len(words)
             \/ (Len(longWords) = Len(words) - 1 /\ Len(shortLetterWords) = 1)

headerBlacklist ==
    <<"profile", "summary", "objective", "career objective", "contact", "education",
      "experience", "skills", "technical skills", "projects", "internships", "trainings",
      "certifications">>

UpperWord == Cat(<<Set(UpperCh), Plus(Set(LowerCh))>>)

\* /^[A-Z][A-Z\s]{8,50}$/
ReAllCapsLine == Cat(<<Bol, Set(UpperCh), Rep(Set(UpperCh \cup SpaceCh), 8, 50), Eol>>)
\* /^[A-Z][a-z]+ [A-Z][a-z]+(?: [A-Z][a-z]+)*$/
ReTitleCaseLine ==
    Cat(<<Bol, UpperWord, Lit(" "), UpperWord, Star(Cat(<<Lit(" "), UpperWord>>)), Eol>>)
\* /^[A-Z]+\.[A-Z]$/
ReInitials == Cat(<<Bol, Plus(Set(UpperCh)), Lit("."), Set(UpperCh), Eol>>)
\* /^[A-Z][A-Z]*\s+[A-Z][A-Z]*$/
ReTwoCaps ==
    Cat(<<Bol, Set(UpperCh), Star(Set(UpperCh)), Spaces, Set(UpperCh), Star(Set(UpperCh)), Eol>>)
\* /(?:name|candidate|applicant)[:\s]+([A-Z][a-zA-Z\s]{3,40})/i
ReNameLabel ==
    Cat(<<Alt(<<Lit("name"), Lit("candidate"), Lit("applicant")>>),
          Plus(Set({":"} \cup SpaceCh)),
          Grp(1, Cat(<<Set(UpperCh), Rep(Set(LetterCh \cup SpaceCh), 3, 40)>>))>>)
\* /^([A-Z][a-z]+\s+[A-Z][a-z]+(?:\s+[A-Z][a-z]+)?)$/m
ReProperLine ==
    Cat(<<Bol, Grp(1, Cat(<<UpperWord, Spaces, UpperWord, Opt(Cat(<<Spaces, UpperWord>>))>>)),
          Eol>>)
\* /^\s*([A-Z][a-zA-Z\s]{5,35})\s*$/m
ReHeaderLine ==
    Cat(<<Bol, Star(Set(SpaceCh)),
          Grp(1, Cat(<<Set(UpperCh), Rep(Set(LetterCh \cup SpaceCh), 5, 35)>>)),
          Star(Set(SpaceCh)), Eol>>)
\* /^\W+|\W+$/g
ReEdges == Alt(<<Cat(<<Bol, Plus(NSet(WordCh))>>), Cat(<<Plus(NSet(WordCh)), Eol>>)>>)
\* /^[A-Z\.\s]{2,60}$/
ReCapsDots == Cat(<<Bol, Rep(Set(UpperCh \cup {"."} \cup SpaceCh), 2, 60), Eol>>)

\* Strategy 1 of extractNameEnhanced: an all-caps line among the first three
CapsClean(line) == trim(replaceAll(line, NSet(UpperCh \cup SpaceCh), NoFlags, ""))
Strategy1Ok(line) ==
    /\ test(ReAllCapsLine, NoFlags, line)
    /\ Len(split(line, " ")) >= 2 /\ Len(split(line, " ")) <= 5
    /\ Len(CapsClean(line)) > 5 /\ ~this_isCompanyOrInstitution(CapsClean(line))

\* Strategy 2: a title-case line among the first five
Strategy2Ok(line) ==
    /\ test(ReTitleCaseLine, NoFlags, line)
    /\ Len(line) >= 5 /\ Len(line) <= 40
    /\ ~this_isCompanyOrInstitution(line)

\* Strategy 3: SURNAME.X, or two all-caps words, among the first thirty lines
InitialsCandidate(line) == split(line, ".")[1] \o " " \o split(line, ".")[2]
Strategy3aOk(line) ==
    /\ test(ReInitials, NoFlags, line)
    /\ ~this_isJobTitle(InitialsCandidate(line)) /\ this_isValidName(InitialsCandidate(line))
Strategy3bOk(line) ==
    /\ test(ReTwoCaps, NoFlags, line)
    /\ Len(split(line, " ")) = 2
    /\ ~this_isCompanyOrInstitution(line) /\ ~this_isJobTitle(line)

\* Strategy 4: the first match of a context pattern, when it passes the filters
Strategy4(t, re, fl) ==
    LET m == exec(re, fl, t)
        candidate == trim(Group(t, m, 1))
    IN  IF m.ok /\ Group(t, m, 1) # Null /\ Group(t, m, 1) # ""
           /\ ~this_isCompanyOrInstitution(candidate) /\ ~this_isJobTitle(candidate)
           /\ this_isValidName(candidate)
        THEN this_formatName(candidate) ELSE Null

\* Strategy 5: an upper-case line with optional dots, among the first 120 lines
Stripped(line) == trim(replaceAll(line, ReEdges, NoFlags, ""))
Words5(line) ==
    NonEmpty(splitRe(replaceAll(Stripped(line), Plus(Lit(".")), NoFlags, " "), Spaces, NoFlags))
Strategy5Ok(line) ==
    /\ Stripped(line) # ""
    /\ ~\E k \in 1..Len(headerBlacklist) :
            startsWith(toLowerCase(Stripped(line)), headerBlacklist[k])
    /\ test(ReCapsDots, NoFlags, Stripped(line))
    /\ Len(Words5(line)) >= 2 /\ Len(Words5(line)) <= 5
    /\ ~this_isCompanyOrInstitution(join(Words5(line), " "))
    /\ ~this_isJobTitle(join(Words5(line), " "))
    /\ this_isValidName(join(Words5(line), " "))

FirstLine(lines, limit, Ok(_)) ==
    LET hits == {i \in 1..MinOf(Len(lines), limit) : Ok(lines[i])}
    IN  IF hits = {} THEN 0 ELSE Least(hits)

extractNameEnhanced(t) ==
    LET lines == NonEmpty(Map(split(t, "\n"), trim))
        s1 == FirstLine(lines, 3, Strategy1Ok)
        s2 == FirstLine(lines, 5, Strategy2Ok)
        s3 == FirstLine(lines, 30, LAMBDA l : Strategy3aOk(l) \/ Strategy3bOk(l))
        s4a == Strategy4(t, ReNameLabel, IgnoreCase)
        s4b == Strategy4(t, ReProperLine, Multiline)
        s4c == Strategy4(t, ReHeaderLine, Multiline)
        s5 == FirstLine(lines, 120, Strategy5Ok)
    IN  IF s1 > 0 THEN this_formatName(CapsClean(lines[s1]))
        ELSE IF s2 > 0 THEN this_formatName(lines[s2])
        ELSE IF s3 > 0
             THEN (IF Strategy3aOk(lines[s3]) THEN this_formatName(InitialsCandidate(lines[s3]))
                   ELSE this_formatName(lines[s3]))
        ELSE IF s4a # Null THEN s4a
        ELSE IF s4b # Null THEN s4b
        ELSE IF s4c # Null THEN s4c
        ELSE IF s5 > 0 THEN this_formatName(join(Words5(lines[s5]), " "))
        ELSE "Name Not Found"

(***************************************************************************)
(* Numbers.  A parsed number is kept exactly: sign, whole part, and the    *)
(* fraction digits without trailing zeros; nan marks JavaScript's NaN.     *)
(***************************************************************************)
D == Set(DigitCh)
\* the en dash of the source's [-(en dash)] classes is written "~" in the texts
EnDash == "~"
Dash == Set({"-", EnDash})
OptSpaces == Star(Set(SpaceCh))

DigitVal(c) == PosIn(DigitSeq, c) - 1

RECURSIVE StrToInt(_)
StrToInt(ds) ==
    IF Len(ds) = 0 THEN 0
    ELSE 10 * StrToInt(SubSeq(ds, 1, Len(ds) - 1)) + DigitVal(SubSeq(ds, Len(ds), Len(ds)))

RECURSIVE IntToStr(_)
IntToStr(n) ==
    IF n < 10 THEN SubSeq(DigitSeq, n + 1, n + 1)
    ELSE IntToStr(n \div 10) \o SubSeq(DigitSeq, (n % 10) + 1, (n % 10) + 1)

NaN == [nan |-> TRUE, neg |-> FALSE, int |-> 0, frac |-> ""]

\* the digits of a fraction without its trailing zeros
StripZeros(ds) ==
    LET keep == {k \in 1..Len(ds) : SubSeq(ds, k, k) # "0"}
    IN  IF keep = {} THEN "" ELSE SubSeq(ds, 1, CHOOSE k \in keep : \A j \in keep : j <= k)

\* the longest prefix parseFloat reads: [+-] digits [. digits] | [+-] . digits
ReFloat ==
    Cat(<<Bol, OptSpaces, Grp(1, Opt(Set({"+", "-"}))),
          Alt(<<Cat(<<Grp(2, Plus(D)), Opt(Cat(<<Lit("."), Grp(3, Star(D))>>))>>),
                Cat(<<Lit("."), Grp(3, Plus(D))>>)>>)>>)

Global_parseFloat(s) ==
    LET m == IF s = Null THEN NoMatch ELSE exec(ReFloat, NoFlags, s)
        whole == IF Group(s, m, 2) = Null THEN "" ELSE Group(s, m, 2)
        part == IF Group(s, m, 3) = Null THEN "" ELSE Group(s, m, 3)
    IN  IF ~m.ok THEN NaN
        ELSE [nan |-> FALSE, neg |-> Group(s, m, 1) = "-",
              int |-> StrToInt(whole), frac |-> StripZeros(part)]

\* parseInt: the whole number a text starts with
ReInt == Cat(<<Bol, OptSpaces, Grp(1, Opt(Set({"+", "-"}))), Grp(2, Plus(D))>>)

Global_parseInt(s) ==
    LET m == IF s = Null THEN NoMatch ELSE exec(ReInt, NoFlags, s)
    IN  IF ~m.ok THEN NaN
        ELSE [nan |-> FALSE, neg |-> Group(s, m, 1) = "-",
              int |-> StrToInt(Group(s, m, 2)), frac |-> ""]

IsZero(x) == x.int = 0 /\ x.frac = ""
Gt0(x) == ~x.nan /\ ~x.neg /\ ~IsZero(x)
Ge0(x) == ~x.nan /\ (~x.neg \/ IsZero(x))
Lt50(x) == ~x.nan /\ (x.neg \/ x.int < 50)

\* Number.prototype.toString of a number that needs no exponent
NumToStr(x) ==
    IF x.nan THEN "NaN"
    ELSE (IF x.neg /\ ~IsZero(x) THEN "-" ELSE "")
            \o IntToStr(x.int) \o (IF x.frac = "" THEN "" ELSE "." \o x.frac)

\* /[^\d.]/g removed, then parseFloat: years >= 0 && years < 50
isValidExperience(experience) ==
    /\ experience # Null /\ experience # ""
    /\ LET years == parseFloat(replaceAll(experience, NSet(DigitCh \cup {"."}), NoFlags, ""))
       IN  ~years.nan /\ Ge0(years) /\ Lt50(years)

(***************************************************************************)
(* src/services/resumeParser.js: email, phone, LinkedIn extractors          *)
(***************************************************************************)
EmailCh == LetterCh \cup DigitCh \cup {".", "_", "-"}
\* /([a-zA-Z0-9._-]+@[a-zA-Z0-9._-]+\.[a-zA-Z0-9_-]+)/gi
ReEmail ==
    Grp(1, Cat(<<Plus(Set(EmailCh)), Lit("@"), Plus(Set(EmailCh)), Lit("."),
                 Plus(Set(LetterCh \cup DigitCh \cup {"_", "-"}))>>))

extractEmail(t) ==
    LET m == exec(ReEmail, IgnoreCase, t)
    IN  IF m.ok THEN toLowerCase(Whole(t, m)) ELSE Null

Sep == Opt(Set({"-", "."} \cup SpaceCh))
Range(a, b) == {SubSeq(DigitSeq, k + 1, k + 1) : k \in a..b}

phonePatterns ==
    << \* /\+91[\s-]?[6-9][0-9]{9}/g
       [re |-> Cat(<<Lit("+91"), Opt(Set(SpaceCh \cup {"-"})), Set(Range(6, 9)), Rep(D, 9, 9)>>),
        fl |-> NoFlags],
       \* /(\+?1[-.\s]?)?(\(?[0-9]{3}\)?[-.\s]?[0-9]{3}[-.\s]?[0-9]{4})/g
       [re |-> Cat(<<Opt(Grp(1, Cat(<<Opt(Lit("+")), Lit("1"), Sep>>))),
                     Grp(2, Cat(<<Opt(Lit("(")), Rep(D, 3, 3), Opt(Lit(")")), Sep,
                                  Rep(D, 3, 3), Sep, Rep(D, 4, 4)>>))>>),
        fl |-> NoFlags],
       \* /(\+[1-9]{1}[0-9]{0,3}[-.\s]?[0-9]{4,14})/g
       [re |-> Grp(1, Cat(<<Lit("+"), Set(Range(1, 9)), Rep(D, 0, 3), Sep, Rep(D, 4, 14)>>)),
        fl |-> NoFlags],
       \* /(phone|mobile|cell|tel)[:\s]*([0-9\-.\s\(\)\+]+)/gi
       [re |-> Cat(<<Grp(1, Alt(<<Lit("phone"), Lit("mobile"), Lit("cell"), Lit("tel")>>)),
                     Star(Set({":"} \cup SpaceCh)),
                     Grp(2, Plus(Set(DigitCh \cup {"-", ".", "(", ")", "+"} \cup SpaceCh)))>>),
        fl |-> IgnoreCase],
       \* /\b[6-9][0-9]{9}\b/g
       [re |-> Cat(<<Wb, Set(Range(6, 9)), Rep(D, 9, 9), Wb>>), fl |-> NoFlags] >>

\* phone.replace(/[^\d\+\-\(\)\s]/gi, '').trim()
cleanPhone(phone) ==
    trim(replaceAll(phone, NSet(DigitCh \cup {"+", "-", "(", ")"} \cup SpaceCh), IgnoreCase, ""))

\* the first pattern, in order, that matches somewhere decides
FirstPattern(t, pats) ==
    LET hits == {k \in 1..Len(pats) : test(pats[k].re, pats[k].fl, t)}
    IN  IF hits = {} THEN 0 ELSE Least(hits)

extractPhone(t) ==
    LET k == FirstPattern(t, phonePatterns)
    IN  IF k = 0 THEN Null
        ELSE this_cleanPhone(Whole(t, exec(phonePatterns[k].re, phonePatterns[k].fl, t)))

HandleCh == LetterCh \cup DigitCh \cup {"-"}
linkedinPatterns ==
    << \* /(https?:\/\/)?(?:www\.)?linkedin\.com\/in\/[a-zA-Z0-9\-]+\/?/gi
       [re |-> Cat(<<Opt(Grp(1, Cat(<<Lit("http"), Opt(Lit("s")), Lit("://")>>))),
                     Opt(Lit("www.")), Lit("linkedin.com/in/"), Plus(Set(HandleCh)),
                     Opt(Lit("/"))>>),
        fl |-> IgnoreCase],
       \* /linkedin[:\s]*([a-zA-Z0-9\-\/\.]+)/gi
       [re |-> Cat(<<Lit("linkedin"), Star(Set({":"} \cup SpaceCh)),
                     Grp(1, Plus(Set(HandleCh \cup {"/", "."})))>>),
        fl |-> IgnoreCase],
       \* /linkedin\.com\/in\/([a-zA-Z0-9\-]+)/gi
       [re |-> Cat(<<Lit("linkedin.com/in/"), Grp(1, Plus(Set(HandleCh)))>>),
        fl |-> IgnoreCase] >>

\* String.prototype.replace with an expression without the g flag
String_replaceFirst(s, re, fl, by) ==
    LET m == exec(re, fl, s)
    IN  IF m.ok THEN SubSeq(s, 1, m.b - 1) \o by \o SubSeq(s, m.e, Len(s)) ELSE s

\* url.split('/').pop() || url.replace(/linkedin[:\s]*/, '')
Username(url) ==
    LET last == split(url, "/")[Len(split(url, "/"))]
    IN  IF last # "" THEN last
        ELSE replaceFirst(url, Cat(<<Lit("linkedin"), Star(Set({":"} \cup SpaceCh))>>),
                          NoFlags, "")

extractLinkedIn(t) ==
    LET k == FirstPattern(t, linkedinPatterns)
        url == Whole(t, exec(linkedinPatterns[k].re, linkedinPatterns[k].fl, t))
    IN  IF k = 0 THEN Null
        ELSE IF ~startsWith(url, "http") THEN "https://linkedin.com/in/" \o Username(url)
        ELSE url

(***************************************************************************)
(* src/services/resumeParser.js: extractExperienceEnhanced                  *)
(***************************************************************************)
Num == Cat(<<Plus(D), Opt(Cat(<<Lit("."), Plus(D)>>))>>)
Years == Cat(<<Lit("year"), Opt(Lit("s"))>>)

experiencePatterns ==
    << \* /(\d+(?:\.\d+)?)\s*years?\s*of\s*experience/gi
       Cat(<<Grp(1, Num), OptSpaces, Years, OptSpaces, Lit("of"), OptSpaces, Lit("experience")>>),
       \* /experience[:\s]+(\d+(?:\.\d+)?)\s*years?/gi
       Cat(<<Lit("experience"), Plus(Set({":"} \cup SpaceCh)), Grp(1, Num), OptSpaces, Years>>),
       \* /over\s+(\d+(?:\.\d+)?)\s*years?/gi
       Cat(<<Lit("over"), Spaces, Grp(1, Num), OptSpaces, Years>>),
       \* /possessing\s+over\s+(\d+(?:\.\d+)?)\s*years?/gi
       Cat(<<Lit("possessing"), Spaces, Lit("over"), Spaces, Grp(1, Num), OptSpaces, Years>>),
       \* /(\d+(?:\.\d+)?)\s*years?\s*experience/gi
       Cat(<<Grp(1, Num), OptSpaces, Years, OptSpaces, Lit("experience")>>),
       \* /total.*?experience.*?(\d+(?:\.\d+)?)\s*years?/gi
       Cat(<<Lit("total"), Lazy(Dot, 0, 9999), Lit("experience"), Lazy(Dot, 0, 9999),
             Grp(1, Num), OptSpaces, Years>>) >>

Month ==
    Alt(<<Lit("jan"), Lit("feb"), Lit("mar"), Lit("apr"), Lit("may"), Lit("jun"),
          Lit("jul"), Lit("aug"), Lit("sep"), Lit("oct"), Lit("nov"), Lit("dec")>>)
WordTail == Star(Set(WordCh))
Year4(k) == Grp(k, Rep(D, 4, 4))
Present(k) == Grp(k, Alt(<<Lit("present"), Lit("current")>>))
Between == Cat(<<OptSpaces, Dash, OptSpaces>>)

dateRangePatterns ==
    << \* /(jan|...|dec)\w*\s+(\d{4})\s*[-(en dash)]\s*(present|current)/gi
       Cat(<<Grp(1, Month), WordTail, Spaces, Year4(2), Between, Present(3)>>),
       \* /(\d{4})\s*[-(en dash)]\s*(present|current)/gi
       Cat(<<Year4(1), Between, Present(2)>>),
       \* /(jan|...)\w*\s+(\d{4})\s*[-(en dash)]\s*(jan|...)\w*\s+(\d{4})/gi
       Cat(<<Grp(1, Month), WordTail, Spaces, Year4(2), Between,
             Grp(3, Month), WordTail, Spaces, Year4(4)>>),
       \* /(\d{4})\s*[-(en dash)]\s*(\d{4})/gi
       Cat(<<Year4(1), Between, Year4(2)>>) >>

\* every match of every pattern, pattern by pattern, as the exec loops meet them
RECURSIVE Flatten(_)
Flatten(a) == IF Len(a) = 0 THEN <<>> ELSE Head(a) \o Flatten(Tail(a))

AllMatches(t, pats, fl) == Flatten([k \in 1..Len(pats) |-> matchAll(pats[k], fl, t)])

Truthy(x) == x # Null /\ x # ""

\* the years one matched date range adds, in twelfths of a year (0 when skipped)
RangeTwelfths(t, m, now) ==
    LET g1 == Group(t, m, 1)
        g2 == Group(t, m, 2)
        g3 == Group(t, m, 3)
        g4 == Group(t, m, 4)
        open == Truthy(g3) /\ toLowerCase(g3) \in {"present", "current"}
        closed == ~open /\ Truthy(g4)
        plain == ~open /\ ~closed /\ Truthy(g2) /\ ~parseInt(g2).nan
        startYear == IF open THEN parseInt(IF Truthy(g2) THEN g2 ELSE g1).int
                     ELSE IF closed THEN parseInt(g2).int
                     ELSE IF plain THEN parseInt(g1).int ELSE 0
        endYear == IF open THEN now.year
                   ELSE IF closed THEN parseInt(g4).int
                   ELSE IF plain THEN parseInt(g2).int ELSE 0
    IN  IF startYear # 0 /\ endYear # 0 /\ endYear >= startYear /\ startYear > 1990
        THEN 12 * (endYear - startYear) + (IF endYear = now.year THEN now.month ELSE 0)
        ELSE 0

RECURSIVE SumSeq(_)
SumSeq(a) == IF Len(a) = 0 THEN 0 ELSE Head(a) + SumSeq(Tail(a))

\* Math.round(total * 10) / 10 of a total given in twelfths, as a text
RoundedTenths(t12) ==
    LET r == (10 * t12 + 6) \div 12
    IN  IntToStr(r \div 10) \o (IF r % 10 = 0 THEN "" ELSE "." \o IntToStr(r % 10))

extractExperienceEnhanced(t, now) ==
    LET stated == AllMatches(t, experiencePatterns, IgnoreCase)
        good == {k \in 1..Len(stated) :
                    Gt0(parseFloat(Group(t, stated[k], 1))) /\ Lt50(parseFloat(Group(t, stated[k], 1)))}
        ranges == AllMatches(t, dateRangePatterns, IgnoreCase)
        totalExperience == SumSeq([k \in 1..Len(ranges) |-> RangeTwelfths(t, ranges[k], now)])
    IN  IF good # {}
        THEN NumToStr(parseFloat(Group(t, stated[Least(good)], 1))) \o " years"
        ELSE IF totalExperience > 0 /\ totalExperience < 600
        THEN RoundedTenths(totalExperience) \o " years"
        ELSE "Not specified"

(***************************************************************************)
(* Values of the skill fields: an array of strings, or a Promise (the      *)
(* result of calling an async function without await), named by its id.    *)
(***************************************************************************)
Arr(items) == [kind |-> "array", id |-> 0, items |-> items]
Prom(id) == [kind |-> "promise", id |-> id, items |-> <<>>]

\* an object with no own keys, and an absent (null / undefined) object
NoKeys == [k \in {} |-> ""]
Absent == [present |-> FALSE, obj |-> NoKeys]
Obj(o) == [present |-> TRUE, obj |-> o]

(***************************************************************************)
(* Responses of the language model.  kind "error": the request rejects;     *)
(* "text": the content is not JSON; "json": the content parses to body.    *)
(***************************************************************************)
JsonNum(v) == [t |-> "num", v |-> v]
JsonStr(v) == [t |-> "str", v |-> v]
JsonNone == [t |-> "none", v |-> ""]
JsonArr(items) == [isArray |-> TRUE, items |-> items]
JsonNotArr == [isArray |-> FALSE, items |-> <<>>]

EmptyBody ==
    [name |-> Null, email |-> Null, phone |-> Null, experience |-> JsonNone,
     linkedinUrl |-> Null, primarySkills |-> JsonNotArr, secondarySkills |-> JsonNotArr,
     additionalFields |-> Absent]

Failure(kind) == [kind |-> kind, body |-> EmptyBody, list |-> JsonNotArr]
Json(body) == [kind |-> "json", body |-> body, list |-> JsonNotArr]
JsonList(list) == [kind |-> "json", body |-> EmptyBody, list |-> list]

\* what the model may answer to the record prompt of extractCandidateInfoAI
AIResponses ==
    { Failure("error"), Failure("text"),
      Json([name |-> "Al Bo", email |-> "ai@m.co", phone |-> "+1 000 000 0000",
            experience |-> JsonNum("5"), linkedinUrl |-> "https://linkedin.com/in/ai",
            primarySkills |-> JsonArr(<<"Go", "Rust">>), secondarySkills |-> JsonArr(<<"Git">>),
            additionalFields |-> Obj([k \in {"education", "visa"} |-> "from model"])]),
      Json([EmptyBody EXCEPT !.experience = JsonStr("0"), !.linkedinUrl = "example.com/me"]) }

\* what the model may answer to a skills prompt of quickAnalyze
QAResponses ==
    { Failure("error"), Failure("text"), JsonList(JsonNotArr),
      JsonList(JsonArr(<<"Go", "Go">>)),
      JsonList(JsonArr(<<"s1", "s2", "s3", "s4", "s5", "s6", "s7", "s8", "s9">>)) }

(***************************************************************************)
(* src/services/aiResumeExtractor.js                                        *)
(***************************************************************************)
JsonTruthy(x) == x.t # "none" /\ x.v # "" /\ ~(x.t = "num" /\ IsZero(parseFloat(x.v)))
OrNull(x) == IF Truthy(x) THEN x ELSE Null

EmptyRecord ==
    [name |-> Null, email |-> Null, phone |-> Null, experience |-> Null,
     linkedinUrl |-> Null, primarySkills |-> Arr(<<>>), secondarySkills |-> Arr(<<>>),
     additionalFields |-> Absent]

\* parseAIResponse: the normalized record, or null when JSON.parse throws
parseAIResponse(response) ==
    IF response.kind # "json" THEN [null |-> TRUE, rec |-> EmptyRecord]
    ELSE LET parsed == response.body
         IN  [null |-> FALSE,
              rec |-> [name |-> OrNull(parsed.name),
                       email |-> OrNull(parsed.email),
                       phone |-> OrNull(parsed.phone),
                       experience |-> IF JsonTruthy(parsed.experience)
                                      THEN parsed.experience.v \o " years" ELSE Null,
                       linkedinUrl |-> OrNull(parsed.linkedinUrl),
                       primarySkills |-> IF parsed.primarySkills.isArray
                                         THEN Arr(parsed.primarySkills.items) ELSE Arr(<<>>),
                       secondarySkills |-> IF parsed.secondarySkills.isArray
                                           THEN Arr(parsed.secondarySkills.items) ELSE Arr(<<>>),
                       additionalFields |-> parsed.additionalFields]]

\* extractCandidateInfoAI: throws when the request rejects, and also when
\* parseAIResponse returned null (Object.keys(null) in the logging call)
extractCandidateInfoAI(response) ==
    IF response.kind = "error" \/ aiExtractor_parseAIResponse(response).null
    THEN [threw |-> TRUE, rec |-> EmptyRecord]
    ELSE [threw |-> FALSE, rec |-> aiExtractor_parseAIResponse(response).rec]

\* the value an extractPrimarySkills / extractSecondarySkills promise fulfils
\* with: skills.slice(0, 8) of a JSON array, [] in every other case
SkillsOutcome(response) ==
    IF response.kind = "json" /\ response.list.isArray
    THEN [items |-> SubSeq(response.list.items, 1, MinOf(8, Len(response.list.items))),
          src |-> "model"]
    ELSE [items |-> <<>>, src |-> "code"]

(***************************************************************************)
(* src/services/resumeParser.js: the merge                                  *)
(***************************************************************************)
\* Array.from(new Set(a)): the entries of a without their later repeats
Dedup(a) == SelectSeq([k \in 1..Len(a) |-> IF \E j \in 1..(k - 1) : a[j] = a[k] THEN Null ELSE a[k]],
                      LAMBDA x : x # Null)

\* mergeAndDedupSkills: spreading a value that is not iterable throws
mergeAndDedupSkills(aiSkills, ruleBasedSkills, limit) ==
    IF aiSkills.kind # "array" \/ ruleBasedSkills.kind # "array"
    THEN [threw |-> TRUE, value |-> Arr(<<>>)]
    ELSE LET all == Dedup(aiSkills.items \o ruleBasedSkills.items)
         IN  [threw |-> FALSE, value |-> Arr(SubSeq(all, 1, MinOf(limit, Len(all))))]

\* { ...a, ...b }: every key of either object, b's value where both have it
Spread(a, b) == [k \in (DOMAIN a) \cup (DOMAIN b) |-> IF k \in DOMAIN b THEN b[k] ELSE a[k]]

(***************************************************************************)
(* src/services/resumeParser.js: extractAdditionalFields                    *)
(***************************************************************************)
substring(s, n) == SubSeq(s, 1, MinOf(n, Len(s)))
Label == Star(Set({":"} \cup SpaceCh))
RestOfLine == Plus(NSet({"\n"}))
AnyOnLine == Star(NSet({"\n"}))
Lits(a) == Alt([k \in 1..Len(a) |-> Lit(a[k])])
Cased == Flags(FALSE, FALSE)

\* String.prototype.match with the g flag: entry n of the array of whole matches
NthMatch(t, re, fl, n) ==
    LET all == matchAll(re, fl, t)
    IN  IF Len(all) >= n THEN Whole(t, all[n]) ELSE Null

\* the groups of every match of each pattern in turn (for matchAll loops)
educationPatterns ==
    << Cat(<<Alt(<<Lit("bachelor"), Lit("master"), Lit("phd"), Lit("doctorate"), Lit("degree"),
                   Cat(<<Lit("b"), Opt(Lit(".")), Lit("tech")>>),
                   Cat(<<Lit("m"), Opt(Lit(".")), Lit("tech")>>), Lit("mba"),
                   Cat(<<Lit("b"), Opt(Lit(".")), Lit("sc")>>),
                   Cat(<<Lit("m"), Opt(Lit(".")), Lit("sc")>>)>>),
             Label, Grp(1, RestOfLine)>>),
       Cat(<<Lits(<<"education", "academic">>), Label, Grp(1, RestOfLine)>>),
       Cat(<<Lits(<<"university", "college", "institute">>), Label, Grp(1, RestOfLine)>>),
       Cat(<<Year4(1), Between, Year4(2), OptSpaces,
             Grp(3, Cat(<<AnyOnLine, Lits(<<"university", "college", "institute", "school">>),
                          AnyOnLine>>))>>) >>

JoinOrNull(a, sep) == IF Len(a) > 0 THEN join(a, sep) ELSE Null

extractEducation(t) ==
    LET all == AllMatches(t, educationPatterns, IgnoreCase)
        content == [k \in 1..Len(all) |->
                       IF Truthy(Group(t, all[k], 1)) THEN Group(t, all[k], 1)
                       ELSE IF Truthy(Group(t, all[k], 3)) THEN Group(t, all[k], 3) ELSE ""]
        kept == SelectSeq(content, LAMBDA c : Len(trim(c)) > 5)
    IN  JoinOrNull(Map(kept, LAMBDA c : substring(trim(c), 100)), "; ")

locationPatterns ==
    << [re |-> Cat(<<Lits(<<"location", "address", "based in", "residing in">>), Label,
                     Grp(1, RestOfLine)>>), fl |-> IgnoreCase],
       [re |-> Grp(1, Cat(<<Set(UpperCh), Plus(Set(LowerCh)), Lit(","), OptSpaces,
                            Rep(Set(UpperCh), 2, 2)>>)), fl |-> Cased],
       [re |-> Grp(1, Cat(<<Set(UpperCh), Plus(Set(LowerCh)), OptSpaces, Set(UpperCh),
                            Star(Set(LowerCh)), Lit(","), OptSpaces, Set(UpperCh),
                            Plus(Set(LowerCh))>>)), fl |-> Cased],
       [re |-> Grp(1, Lits(<<"hyderabad", "bangalore", "mumbai", "delhi", "chennai", "pune",
                             "kolkata", "india">>)), fl |-> IgnoreCase] >>

\* text.match of a g-flagged pattern: match[1] is the second whole match
extractLocation(t) ==
    LET k == FirstPattern(t, locationPatterns)
        second == NthMatch(t, locationPatterns[k].re, locationPatterns[k].fl, 2)
        first == NthMatch(t, locationPatterns[k].re, locationPatterns[k].fl, 1)
        location == IF Truthy(second) THEN second ELSE first
    IN  IF k = 0 THEN Null
        ELSE replaceFirst(trim(location), Cat(<<Plus(Set({","} \cup SpaceCh)), Eol>>), Cased, "")

RoleWords ==
    Lits(<<"Engineer", "Developer", "Manager", "Analyst", "Designer", "Specialist", "Lead",
           "Director", "VP", "Consultant", "Trainee">>)

extractCurrentRole(t) ==
    LET a == NthMatch(t, Cat(<<Lits(<<"current", "present">>), Label, Grp(1, RestOfLine)>>),
                      IgnoreCase, 2)
        b == NthMatch(t, Cat(<<Lits(<<"working as", "role", "position", "designation">>), Label,
                               Grp(1, RestOfLine)>>), IgnoreCase, 2)
        m == exec(Cat(<<Bol, Grp(1, Cat(<<Set(UpperCh), Plus(Set(LowerCh \cup SpaceCh)),
                                          RoleWords>>))>>), Multiline, t)
        c == IF m.ok THEN Group(t, m, 1) ELSE Null
    IN  IF Truthy(a) THEN substring(trim(a), 50)
        ELSE IF Truthy(b) THEN substring(trim(b), 50)
        ELSE IF Truthy(c) THEN substring(trim(c), 50)
        ELSE Null

extractSummary(t) ==
    LET a == NthMatch(t, Cat(<<Lits(<<"summary", "objective", "profile", "career objective">>),
                               Label,
                               Grp(1, Cat(<<AnyOnLine, Rep(Cat(<<Lit("\n"), AnyOnLine>>), 0, 4)>>))>>),
                      IgnoreCase, 2)
        m == exec(Cat(<<Bol, Grp(1, Cat(<<Set(UpperCh), Star(NSet({".", "!", "?"})),
                                          Set({".", "!", "?"})>>)), Eol>>), Multiline, t)
        b == IF m.ok THEN Group(t, m, 1) ELSE Null
    IN  IF Truthy(a) /\ Len(trim(a)) > 20 THEN substring(trim(a), 300)
        ELSE IF Truthy(b) /\ Len(trim(b)) > 20 THEN substring(trim(b), 300)
        ELSE Null

projectPatterns ==
    << Cat(<<Lits(<<"project", "projects">>), Label,
             Grp(1, Cat(<<AnyOnLine, Rep(Cat(<<Lit("\n"), AnyOnLine>>), 0, 3)>>))>>),
       Cat(<<Lits(<<"title", "project title">>), Label, Grp(1, RestOfLine)>>) >>

extractProjects(t) ==
    LET all == AllMatches(t, projectPatterns, IgnoreCase)
        kept == SelectSeq(all, LAMBDA m : Truthy(Group(t, m, 1)) /\ Len(trim(Group(t, m, 1))) > 10)
        projects == Map(kept, LAMBDA m : substring(trim(Group(t, m, 1)), 200))
    IN  JoinOrNull(SubSeq(projects, 1, MinOf(3, Len(projects))), "; ")

companyPatterns ==
    << [re |-> Cat(<<Lits(<<"company", "employer", "organization">>), Label, Grp(1, RestOfLine)>>),
        fl |-> IgnoreCase],
       [re |-> Grp(1, Cat(<<Wb, Set(UpperCh), Plus(Set(LetterCh \cup SpaceCh \cup {"&"})),
                            Lits(<<"Ltd", "Inc", "Corporation", "Corp", "Company",
                                   "Technologies", "Solutions", "Systems", "Services">>), Wb>>)),
        fl |-> Cased] >>

extractCompanies(t) ==
    LET all == Flatten([k \in 1..Len(companyPatterns) |->
                   Map(matchAll(companyPatterns[k].re, companyPatterns[k].fl, t),
                       LAMBDA m : IF Truthy(Group(t, m, 1)) THEN Group(t, m, 1) ELSE Whole(t, m))])
        kept == SelectSeq(all, LAMBDA c : Len(trim(c)) > 3)
        companies == Dedup(Map(kept, LAMBDA c : substring(trim(c), 50)))
    IN  JoinOrNull(SubSeq(companies, 1, MinOf(5, Len(companies))), "; ")

\* extractCertifications and extractLanguages are async: the object holds
\* their Promises, not their lists
PromiseValue == "<promise>"

extractAdditionalFields(t) ==
    [k \in {"education", "location", "currentRole", "summary", "certifications",
            "languages", "projects", "companies"} |->
        CASE k = "education" -> this_extractEducation(t)
          [] k = "location" -> this_extractLocation(t)
          [] k = "currentRole" -> this_extractCurrentRole(t)
          [] k = "summary" -> this_extractSummary(t)
          [] k = "projects" -> this_extractProjects(t)
          [] k = "companies" -> this_extractCompanies(t)
          [] OTHER -> PromiseValue]

(***************************************************************************)
(* src/index.js: extractExperienceWithAI of the local fallback extractor    *)
(***************************************************************************)
PlusSign == Cat(<<OptSpaces, Opt(Lit("+")), OptSpaces>>)
\* [-(en dash)to]: one character out of dash, en dash, t, o
DashTo == Set({"-", EnDash, "t", "o"})
YearOrNow(k) == Grp(k, Alt(<<Rep(D, 4, 4), Lit("present"), Lit("current")>>))

\* this.experiencePatterns, all with the flags gi
statedPatterns ==
    << \* /(\d+(?:\.\d+)?)\s*(?:\+)?\s*years?\s*(?:of\s+)?experience/gi
       Cat(<<Grp(1, Num), PlusSign, Years, OptSpaces, Opt(Cat(<<Lit("of"), Spaces>>)),
             Lit("experience")>>),
       \* /experience[:\s]*(\d+(?:\.\d+)?)\s*(?:\+)?\s*years?/gi
       Cat(<<Lit("experience"), Label, Grp(1, Num), PlusSign, Years>>),
       \* /(\d+(?:\.\d+)?)\s*(?:\+)?\s*yrs?\s*(?:of\s+)?exp/gi
       Cat(<<Grp(1, Num), PlusSign, Lit("yr"), Opt(Lit("s")), OptSpaces,
             Opt(Cat(<<Lit("of"), Spaces>>)), Lit("exp")>>),
       \* /total\s*experience[:\s]*(\d+(?:\.\d+)?)/gi
       Cat(<<Lit("total"), OptSpaces, Lit("experience"), Label, Grp(1, Num)>>),
       \* /(?:over|more than)\s*(\d+(?:\.\d+)?)\s*years?/gi
       Cat(<<Lits(<<"over", "more than">>), OptSpaces, Grp(1, Num), OptSpaces, Years>>),
       \* /(\d{4})\s*[-(en dash)to]\s*(\d{4}|present|current)/gi
       Cat(<<Year4(1), OptSpaces, DashTo, OptSpaces, YearOrNow(2)>>) >>

WordYear == Cat(<<Plus(Set(WordCh)), Spaces, Rep(D, 4, 4)>>)

rangePatterns ==
    << \* /(\d{4})\s*[-(en dash)to]\s*(\d{4}|present|current)/gi
       Cat(<<Year4(1), OptSpaces, DashTo, OptSpaces, YearOrNow(2)>>),
       \* /(\w+\s+\d{4})\s*[-(en dash)to]\s*(\w+\s+\d{4}|present|current)/gi
       Cat(<<Grp(1, WordYear), OptSpaces, DashTo, OptSpaces,
             Grp(2, Alt(<<WordYear, Lit("present"), Lit("current")>>))>>) >>

\* the { start, end } pairs, pattern by pattern
extractDateRanges(t) ==
    Map(AllMatches(t, rangePatterns, IgnoreCase),
        LAMBDA m : [start |-> Group(t, m, 1), end |-> Group(t, m, 2)])

\* the years one range adds to the total (0 when it is skipped)
RangeYears(r, currentYear) ==
    LET start == parseInt(r.start)
        end == IF test(Lits(<<"present", "current">>), IgnoreCase, r.end)
               THEN [nan |-> FALSE, neg |-> FALSE, int |-> currentYear, frac |-> ""]
               ELSE parseInt(r.end)
        diff == end.int - start.int
    IN  IF /\ ~start.nan /\ start.int # 0 /\ ~end.nan /\ end.int # 0
           /\ ~start.neg /\ ~end.neg
           /\ start.int > 1980 /\ end.int >= start.int /\ end.int <= currentYear + 1
           /\ diff > 0 /\ diff <= 15
        THEN diff ELSE 0

\* Step 1 reads match[1] of a g-flagged match: the second whole match
StatedValue(t, k) == parseFloat(NthMatch(t, statedPatterns[k], IgnoreCase, 2))

extractExperienceWithAI(t, now) ==
    LET good == {k \in 1..Len(statedPatterns) :
                    /\ Truthy(NthMatch(t, statedPatterns[k], IgnoreCase, 2))
                    /\ Gt0(StatedValue(t, k)) /\ Lt50(StatedValue(t, k))}
        ranges == this_extractDateRanges(t)
        total == SumSeq([k \in 1..Len(ranges) |-> RangeYears(ranges[k], now.year)])
    IN  IF good # {} THEN NumToStr(StatedValue(t, Least(good))) \o " years"
        ELSE IF total > 0 /\ total <= 50 THEN IntToStr(total) \o " years"
        ELSE "Not specified"

(***************************************************************************)
(* src/utils/textExtractor.js: extractNameWithAI                            *)
(***************************************************************************)
namePatterns ==
    << \* /^([A-Z][A-Z\s]{8,40})$/m
       [re |-> Cat(<<Bol, Grp(1, Cat(<<Set(UpperCh), Rep(Set(UpperCh \cup SpaceCh), 8, 40)>>)),
                     Eol>>), fl |-> Multiline],
       \* /^([A-Z][a-z]+ [A-Z][a-z]+(?: [A-Z][a-z]+)?)$/m
       [re |-> Cat(<<Bol, Grp(1, Cat(<<UpperWord, Lit(" "), UpperWord,
                                       Opt(Cat(<<Lit(" "), UpperWord>>))>>)), Eol>>),
        fl |-> Multiline],
       \* /^([A-Z][A-Z\s]+(?:\.|[A-Z])?)$/m
       [re |-> Cat(<<Bol, Grp(1, Cat(<<Set(UpperCh), Plus(Set(UpperCh \cup SpaceCh)),
                                       Opt(Alt(<<Lit("."), Set(UpperCh)>>))>>)), Eol>>),
        fl |-> Multiline],
       \* /(?:Name|Candidate)[:\s]*([A-Z][a-zA-Z\s]{3,30})/i
       [re |-> Cat(<<Lits(<<"Name", "Candidate">>), Label,
                     Grp(1, Cat(<<Set(UpperCh), Rep(Set(LetterCh \cup SpaceCh), 3, 30)>>))>>),
        fl |-> IgnoreCase],
       \* /^\s*([A-Z][a-z]+(?:\s+[A-Z][a-z]+){1,3})\s*$/m
       [re |-> Cat(<<Bol, OptSpaces,
                     Grp(1, Cat(<<UpperWord, Rep(Cat(<<Spaces, UpperWord>>), 1, 3)>>)),
                     OptSpaces, Eol>>), fl |-> Multiline] >>

nonNameKeywords ==
    <<"profile", "objective", "summary", "education", "experience", "skills",
      "contact", "phone", "email", "location", "resume", "cv", "curriculum",
      "bachelor", "master", "phd", "degree", "institute", "university", "college",
      "project", "certification", "language", "address", "qualification">>

isNonNameLine(line) ==
    \/ \E k \in 1..Len(nonNameKeywords) : includes(toLowerCase(line), nonNameKeywords[k])
    \/ test(Lit("@"), NoFlags, line)
    \/ test(Cat(<<Lit("+"), D>>), NoFlags, line)
    \/ test(Cat(<<Bol, D>>), NoFlags, line)
    \/ Len(line) < 3 \/ Len(line) > 50

AllCapsCandidate(line) ==
    /\ test(ReAllCapsLine, NoFlags, line)
    /\ Len(splitRe(line, Spaces, NoFlags)) >= 2 /\ Len(splitRe(line, Spaces, NoFlags)) <= 5

TitleCaseCandidate(line) ==
    test(ReTitleCaseLine, NoFlags, line) /\ Len(line) < 50 /\ ~this_isNonNameLine(line)

\* the candidates are sorted by confidence, then by position; the sort is
\* stable, so the keyword candidates (all at position -1) keep pattern order
extractNameWithAI(t) ==
    LET lines == NonEmpty(Map(split(t, "\n"), trim))
        caps == FirstLine(lines, 8, AllCapsCandidate)
        title == FirstLine(lines, 8, TitleCaseCandidate)
        keyed == {k \in 1..Len(namePatterns) :
                     /\ test(namePatterns[k].re, namePatterns[k].fl, t)
                     /\ Truthy(Group(t, exec(namePatterns[k].re, namePatterns[k].fl, t), 1))}
        first == namePatterns[Least(keyed)]
    IN  IF caps > 0 THEN this_formatName(lines[caps])
        ELSE IF title > 0 THEN this_formatName(lines[title])
        ELSE IF keyed # {} THEN this_formatName(Group(t, exec(first.re, first.fl, t), 1))
        ELSE "Name Not Found"

(***************************************************************************)
(* src/index.js: extractSkillsWithAI                                        *)
(***************************************************************************)
skillCategories ==
    [programming |-> <<"JavaScript", "Python", "Java", "C++", "C#", "PHP", "Ruby", "Go", "Rust",
                       "TypeScript", "Swift", "Kotlin", "Scala", "R", "MATLAB", "Dart">>,
     web |-> <<"React", "Angular", "Vue.js", "Vue", "Node.js", "Express", "Django", "Flask",
               "Spring", "ASP.NET", "Laravel", "HTML", "CSS", "Bootstrap", "Tailwind", "jQuery">>,
     mobile |-> <<"React Native", "Flutter", "Xamarin", "iOS", "Android">>,
     database |-> <<"MySQL", "PostgreSQL", "MongoDB", "Redis", "Cassandra", "Oracle",
                    "SQL Server", "SQLite">>,
     cloud |-> <<"AWS", "Azure", "GCP", "Heroku", "DigitalOcean">>,
     devops |-> <<"Docker", "Kubernetes", "Jenkins", "Terraform", "Ansible">>,
     tools |-> <<"Git", "GitHub", "JIRA", "Slack", "Postman", "Trello">>]

\* the skills of the categories a call goes through, in the order of the loops
Vocabulary(isPrimary) ==
    IF isPrimary
    THEN skillCategories.programming \o skillCategories.web \o skillCategories.mobile
             \o skillCategories.database \o skillCategories.cloud
    ELSE skillCategories.devops \o skillCategories.tools

\* new RegExp(`\\b${this.escapeRegex(skill)}\\b`, 'gi'): the skill as a literal
findSkillContexts(t, skill) ==
    LET found == matchAll(Cat(<<Wb, Lit(skill), Wb>>), IgnoreCase, t)
    IN  [j \in 1..Len(found) |->
            SubSeq(t, IF found[j].b > 50 THEN found[j].b - 50 ELSE 1,
                      MinOf(Len(t), found[j].b - 1 + Len(skill) + 50))]

ContextBonus(c) ==
    (IF test(Lits(<<"skill", "technology", "experience", "proficient">>), NoFlags, c)
     THEN 2 ELSE 0)
    + (IF test(Cat(<<Plus(D), OptSpaces, Years>>), NoFlags, c) THEN 1 ELSE 0)

calcSkillScore(ctxs) == Len(ctxs) + SumSeq([j \in 1..Len(ctxs) |-> ContextBonus(ctxs[j])])

\* Array.prototype.sort((a, b) => b.score - a.score): stable, the highest
\* score first
RECURSIVE SortedByScore(_)
SortedByScore(a) ==
    IF a = <<>> THEN <<>>
    ELSE LET first == Least({i \in 1..Len(a) : \A j \in 1..Len(a) : a[j].score <= a[i].score})
         IN  <<a[first]>> \o SortedByScore([j \in 1..(Len(a) - 1) |->
                                               IF j < first THEN a[j] ELSE a[j + 1]])

extractSkillsWithAI(t, isPrimary) ==
    LET lower == toLowerCase(t)
        vocabulary == Vocabulary(isPrimary)
        scored == [k \in 1..Len(vocabulary) |->
                      LET contexts == this_findSkillContexts(lower, toLowerCase(vocabulary[k]))
                      IN  [skill |-> vocabulary[k], n |-> Len(contexts),
                           score |-> calcSkillScore(contexts)]]
        sorted == SortedByScore(SelectSeq(scored, LAMBDA x : x.n > 0))
    IN  [j \in 1..MinOf(Len(sorted), IF isPrimary THEN 8 ELSE 6) |-> sorted[j].skill]

(***************************************************************************)
(* Inputs of the model: resume texts, and the dates new Date() may return.  *)
(***************************************************************************)
Samples ==
    << "JOHN SMITH\njs@x.io\n+1 415 555 0100\n5 years of experience\nlinkedin.com/in/jsmith",
       "Priya Sharma\nMar 2023 - Present\nhttps://LinkedIn.com/in/priya",
       "PRIYANKA.I\nTester\n2019-2021\nMobile: 98765-43210",
       "no contact data here",
       "Name: Ravi Kumar\r\n  LinkedIn:  ravi-k \r\n0 years of experience",
       "1981-1996, 1996-2011, 2011-2026, 1985-1990",
       "DEVELOPER\nnotes" >>

Calendar == <<[year |-> 2025, month |-> 11], [year |-> 2026, month |-> 5]>>

MaxRuns == 2

(***************************************************************************)
(* src/services/resumeParser.js: extractCandidateInfoWithAI                 *)
(***************************************************************************)
\* the object built before the try block; extractPrimarySkills and
\* extractSecondarySkills are async and not awaited, so the two skill fields
\* hold Promises (ids 1 and 2)
RuleBasedInfo(t, date) ==
    [name |-> this_extractNameEnhanced(this_normalizeText(t)),
     email |-> this_extractEmail(this_normalizeText(t)),
     phone |-> this_extractPhone(this_normalizeText(t)),
     experience |-> this_extractExperienceEnhanced(this_normalizeText(t), date),
     linkedinUrl |-> this_extractLinkedIn(this_normalizeText(t)),
     primarySkills |-> Prom(1),
     secondarySkills |-> Prom(2),
     additionalFields |-> Absent]

\* the merged object of the try block
MergedInfo(ai, ruleBased, extractAdditional, t) ==
    [name |-> IF Truthy(ai.name) THEN ai.name ELSE ruleBased.name,
     email |-> IF this_isValidEmail(ruleBased.email) THEN ruleBased.email ELSE ai.email,
     phone |-> IF this_isValidPhone(ruleBased.phone) THEN ruleBased.phone ELSE ai.phone,
     experience |-> IF this_isValidExperience(ai.experience) THEN ai.experience
                    ELSE ruleBased.experience,
     linkedinUrl |-> IF this_isValidLinkedIn(ruleBased.linkedinUrl) THEN ruleBased.linkedinUrl
                     ELSE ai.linkedinUrl,
     primarySkills |->
         this_mergeAndDedupSkills(ai.primarySkills, ruleBased.primarySkills, 8).value,
     secondarySkills |->
         this_mergeAndDedupSkills(ai.secondarySkills, ruleBased.secondarySkills, 8).value,
     additionalFields |->
         IF extractAdditional
         THEN Obj(Spread(this_extractAdditionalFields(this_normalizeText(t)),
                         IF ai.additionalFields.present
                         THEN ai.additionalFields.obj ELSE NoKeys))
         ELSE Absent]

\* what the function returns once the model's answer is in: the merged
\* object, or ruleBasedInfo from the catch block when anything in the try
\* block threw (the awaited call, or a spread inside mergeAndDedupSkills)
Returned(response, ruleBased, extractAdditional, t) ==
    LET out == aiExtractor_extractCandidateInfoAI(response)
    IN  IF out.threw THEN ruleBased
        ELSE IF this_mergeAndDedupSkills(out.rec.primarySkills, ruleBased.primarySkills, 8).threw
        THEN ruleBased
        ELSE IF this_mergeAndDedupSkills(out.rec.secondarySkills, ruleBased.secondarySkills, 8).threw
        THEN ruleBased
        ELSE MergedInfo(out.rec, ruleBased, extractAdditional, t)

\* the function a call names, applied to the arguments of the call
Invoke(method, args) ==
    CASE method = "test" -> RegExp_test(args[1], args[2], args[3])
      [] method = "exec" -> RegExp_exec(args[1], args[2], args[3])
      [] method = "matchAll" -> String_matchAll(args[1], args[2], args[3])
      [] method = "replaceAll" -> String_replaceAll(args[1], args[2], args[3], args[4])
      [] method = "replaceFirst" -> String_replaceFirst(args[1], args[2], args[3], args[4])
      [] method = "splitRe" -> String_splitRe(args[1], args[2], args[3])
      [] method = "SearchFrom" -> RegExp_SearchFrom(args[1], args[2], args[3], args[4])
      [] method = "parseInt" -> Global_parseInt(args[1])
      [] method = "parseFloat" -> Global_parseFloat(args[1])
      [] method = "isValidEmail" -> isValidEmail(args[1])
      [] method = "isValidPhone" -> isValidPhone(args[1])
      [] method = "isValidExperience" -> isValidExperience(args[1])
      [] method = "isValidLinkedIn" -> isValidLinkedIn(args[1])
      [] method = "mergeAndDedupSkills" -> mergeAndDedupSkills(args[1], args[2], args[3])
      [] method = "normalizeText" -> normalizeText(args[1])
      [] method = "extractNameEnhanced" -> extractNameEnhanced(args[1])
      [] method = "isJobTitle" -> isJobTitle(args[1])
      [] method = "isCompanyOrInstitution" -> isCompanyOrInstitution(args[1])
      [] method = "isValidName" -> isValidName(args[1])
      [] method = "formatName" -> formatName(args[1])
      [] method = "extractExperienceEnhanced" -> extractExperienceEnhanced(args[1], args[2])
      [] method = "extractEmail" -> extractEmail(args[1])
      [] method = "extractPhone" -> extractPhone(args[1])
      [] method = "cleanPhone" -> cleanPhone(args[1])
      [] method = "extractLinkedIn" -> extractLinkedIn(args[1])
      [] method = "extractAdditionalFields" -> extractAdditionalFields(args[1])
      [] method = "extractEducation" -> extractEducation(args[1])
      [] method = "extractLocation" -> extractLocation(args[1])
      [] method = "extractCurrentRole" -> extractCurrentRole(args[1])
      [] method = "extractSummary" -> extractSummary(args[1])
      [] method = "extractProjects" -> extractProjects(args[1])
      [] method = "extractCompanies" -> extractCompanies(args[1])
      [] method = "extractDateRanges" -> extractDateRanges(args[1])
      [] method = "extractExperienceWithAI" -> extractExperienceWithAI(args[1], args[2])
      [] method = "isNonNameLine" -> isNonNameLine(args[1])
      [] method = "extractNameWithAI" -> extractNameWithAI(args[1])
      [] method = "findSkillContexts" -> findSkillContexts(args[1], args[2])
      [] method = "extractSkillsWithAI" -> extractSkillsWithAI(args[1], args[2])
      [] method = "parseAIResponse" -> parseAIResponse(args[1])
      [] method = "extractCandidateInfoAI" -> extractCandidateInfoAI(args[1])
      [] method = "RuleBasedInfo" -> RuleBasedInfo(args[1], args[2])
      [] method = "Returned" -> Returned(args[1], args[2], args[3], args[4])

\* RuleBasedInfo tabulated over the inputs of the model: row k holds the
\* object for Samples[k] at each date of Calendar
RECURSIVE RuleAtDates(_, _)
RuleAtDates(t, d) ==
    IF d = 0 THEN <<>> ELSE Append(RuleAtDates(t, d - 1), Invoke("RuleBasedInfo", <<t, Calendar[d]>>))

RECURSIVE RuleRows(_)
RuleRows(k) ==
    IF k = 0 THEN <<>> ELSE Append(RuleRows(k - 1), RuleAtDates(Samples[k], Len(Calendar)))

RuleTable == RuleRows(Len(Samples))

SampleIndex(t) == CHOOSE k \in 1..Len(Samples) : Samples[k] = t

\* RuleBasedInfo of any text: read from the table when the text is a sample
RuleBasedAt(t, d) ==
    IF \E k \in 1..Len(Samples) : Samples[k] = t THEN RuleTable[SampleIndex(t)][d]
    ELSE Invoke("RuleBasedInfo", <<t, Calendar[d]>>)

(***************************************************************************)
(* State                                                                    *)
(***************************************************************************)
VARIABLES
    text,           \* the text of the call in hand (or of the last call)
    flag,           \* its extractAdditionalFields argument
    today,          \* the date new Date() gave last, as an index of Calendar
    pc,             \* "idle", "awaitAI" (inside await extractCandidateInfoAI), "done"
    ruleBasedInfo,  \* the local of extractCandidateInfoWithAI
    promises,       \* the Promises of extractPrimarySkills (1) and extractSecondarySkills (2)
    aiResult,       \* what the awaited call gave: nothing yet, a throw, or a record
    result,         \* the value the last operation returned
    prev,           \* the settled record of the run before this one
    runs,           \* calls of extractCandidateInfoWithAI so far
    OPENAI_MODEL,   \* process.env.OPENAI_MODEL
    client,         \* whether the OpenAI client of src/index.js was created
    calls,          \* the calls of the model-assisted extractors, by caller
    batch,          \* the batchExtract call of src/unnamed/part_000 in hand
    candidatesStorage,  \* the module-level array of src/services/resumeParser.js
    uuids,          \* how many identifiers uuidv4() has given out
    upload,         \* the upload request in hand (or the last one answered)
    uploads,        \* upload requests received so far
    inflight,       \* the model requests sent and not yet answered
    issued,         \* every model request sent so far
    clearing        \* clearAllCandidates in progress: its loop position

coreVars == <<text, flag, today, pc, ruleBasedInfo, promises, aiResult, result, prev, runs>>
extractorVars == <<OPENAI_MODEL, client, calls, batch>>
serverVars == <<candidatesStorage, uuids, upload, uploads, inflight, issued, clearing>>
vars == <<coreVars, extractorVars, serverVars>>

Unissued == [st |-> "none", items |-> <<>>, src |-> "none"]
Pending == [st |-> "pending", items |-> <<>>, src |-> "none"]
NoResult == [op |-> "none", rec |-> EmptyRecord, str |-> ""]
NoAI == [st |-> "none", rec |-> EmptyRecord]
NoPrev == [valid |-> FALSE, text |-> "", flag |-> FALSE, rec |-> EmptyRecord]

MaxCallers == 2
Callers == 1..MaxCallers

NoOutcome == [kind |-> "none", rec |-> EmptyRecord]
NoCall == [fn |-> "none", pc |-> "idle", text |-> "", flag |-> FALSE,
           requests |-> <<>>, outcome |-> NoOutcome]

NoBatch == [pc |-> "idle", n |-> 0, flag |-> FALSE, i |-> 0, calls |-> <<>>,
            results |-> <<>>, pauses |-> 0]

\* no extractor call made, no key configured
ExtractorQuiet ==
    /\ OPENAI_MODEL = "unset"
    /\ client = FALSE
    /\ calls = [c \in Callers |-> NoCall]
    /\ batch = NoBatch

\* (a file name is modelled by the place of the file: upload u, file k)
NoCandidate == [id |-> 0, originalFileName |-> [u |-> 0, k |-> 0], data |-> EmptyRecord]
NoUpload ==
    [phase |-> "none", files |-> <<>>, flag |-> FALSE, k |-> 0, received |-> 0,
     ruleBased |-> EmptyRecord,
     candidate |-> NoCandidate,
     results |-> <<>>, errors |-> <<>>]
NotClearing == [active |-> FALSE, i |-> 0, count |-> 0]

\* the server as it starts: nothing stored, no request received
ServerQuiet ==
    /\ candidatesStorage = <<>>
    /\ uuids = 0
    /\ upload = NoUpload
    /\ uploads = 0
    /\ inflight = {}
    /\ issued = {}
    /\ clearing = NotClearing

CoreInit ==
    /\ text = ""
    /\ flag = FALSE
    /\ today = 1
    /\ pc = "idle"
    /\ ruleBasedInfo = EmptyRecord
    /\ promises = [id \in 1..2 |-> Unissued]
    /\ aiResult = NoAI
    /\ result = NoResult
    /\ prev = NoPrev
    /\ runs = 0

Init == CoreInit /\ ExtractorQuiet /\ ServerQuiet

\* a skill field as a reader who awaits it sees it
Awaited(v) == IF v.kind = "promise" THEN Arr(promises[v.id].items) ELSE v
Settled(v) == v.kind = "array" \/ promises[v.id].st = "fulfilled"
AwaitedRecord(rec) ==
    [rec EXCEPT !.primarySkills = Awaited(@), !.secondarySkills = Awaited(@)]

\* the synchronous part of extractCandidateInfoWithAI(t, f), up to its await:
\* ruleBasedInfo is built (two quickAnalyze requests go out), then the
\* request of extractCandidateInfoAI goes out
Enter(t, f, d) ==
    /\ d >= today
    /\ text' = t
    /\ flag' = f
    /\ today' = d
    /\ ruleBasedInfo' = RuleTable[SampleIndex(t)][d]
    /\ promises' = [id \in 1..2 |-> Pending]
    /\ aiResult' = NoAI
    /\ result' = NoResult
    /\ pc' = "awaitAI"
    /\ runs' = runs + 1
    /\ UNCHANGED <<extractorVars, serverVars>>

Call(t, f, d) ==
    /\ pc = "idle"
    /\ runs = 0
    /\ Enter(t, f, d)
    /\ UNCHANGED prev

\* a second call with the same arguments, once the first has returned and
\* its Promises have settled; the settled rule-based record of the first is kept
CallAgain(d) ==
    /\ pc = "done"
    /\ runs < MaxRuns
    /\ \A id \in 1..2 : promises[id].st = "fulfilled"
    /\ prev' = [valid |-> TRUE, text |-> text, flag |-> flag, rec |-> AwaitedRecord(ruleBasedInfo)]
    /\ Enter(text, flag, d)

\* a quickAnalyze request settles and its async function completes
QuickAnalyzeSettle(id, response) ==
    /\ promises[id].st = "pending"
    /\ promises' = [promises EXCEPT ![id] =
                       [st |-> "fulfilled", items |-> SkillsOutcome(response).items,
                        src |-> SkillsOutcome(response).src]]
    /\ UNCHANGED <<text, flag, today, pc, ruleBasedInfo, aiResult, result, prev, runs>>
    /\ UNCHANGED <<extractorVars, serverVars>>

\* the request of extractCandidateInfoAI settles; extractCandidateInfoWithAI
\* runs from its await to its return
AISettle(response) ==
    /\ pc = "awaitAI"
    /\ aiResult' = [st |-> IF aiExtractor_extractCandidateInfoAI(response).threw THEN "threw" ELSE "record",
                    rec |-> aiExtractor_extractCandidateInfoAI(response).rec]
    /\ result' = [op |-> "extractCandidateInfoWithAI",
                  rec |-> Invoke("Returned", <<response, ruleBasedInfo, flag, text>>), str |-> ""]
    /\ pc' = "done"
    /\ UNCHANGED <<text, flag, today, ruleBasedInfo, promises, prev, runs>>
    /\ UNCHANGED <<extractorVars, serverVars>>

\* src/index.js: extractExperienceWithAI applied to a text
ExtractExperienceWithAI(t, d) ==
    /\ pc = "idle"
    /\ d >= today
    /\ text' = t
    /\ today' = d
    /\ result' = [op |-> "extractExperienceWithAI", rec |-> EmptyRecord,
                  str |-> this_extractExperienceWithAI(t, Calendar[d])]
    /\ UNCHANGED <<flag, pc, ruleBasedInfo, promises, aiResult, prev, runs>>
    /\ UNCHANGED <<extractorVars, serverVars>>

\* src/utils/textExtractor.js: extractNameWithAI applied to a text
ExtractNameWithAI(t) ==
    /\ pc = "idle"
    /\ text' = t
    /\ result' = [op |-> "extractNameWithAI", rec |-> EmptyRecord, str |-> this_extractNameWithAI(t)]
    /\ UNCHANGED <<flag, today, pc, ruleBasedInfo, promises, aiResult, prev, runs>>
    /\ UNCHANGED <<extractorVars, serverVars>>

SampleSet == {Samples[k] : k \in 1..Len(Samples)}
Dates == 1..Len(Calendar)

Next ==
    \/ \E t \in SampleSet, f \in BOOLEAN, d \in Dates : Call(t, f, d)
    \/ \E d \in Dates : CallAgain(d)
    \/ \E id \in 1..2, response \in QAResponses : QuickAnalyzeSettle(id, response)
    \/ \E response \in AIResponses : AISettle(response)
    \/ \E t \in SampleSet, d \in Dates : ExtractExperienceWithAI(t, d)
    \/ \E t \in SampleSet : ExtractNameWithAI(t)

Spec == Init /\ [][Next]_vars
(***************************************************************************)
(* Properties of the record extractCandidateInfoWithAI returns              *)
(***************************************************************************)
Returns == pc = "done" /\ result.op = "extractCandidateInfoWithAI"
ModelRecordPresent == Returns /\ aiResult.st = "record"
SkillFields == {"primarySkills", "secondarySkills"}
FromModel(v) == v.kind = "promise" /\ promises[v.id].src = "model"

\* C1: when the model-assisted call throws, the record returned is the
\* rule-based record, field for field, and none of its fields comes from the
\* model.
C1_FallbackIsRuleBasedOnly ==
    (Returns /\ aiResult.st = "threw") =>
        /\ result.rec = ruleBasedInfo
        /\ \A f \in SkillFields : ~FromModel(result.rec[f])

\* C2: with a model record present, email, phone and linkedinUrl of the
\* returned record are the rule-based value when it passes the field's
\* validity predicate, and the model's value otherwise.
C2_ContactFieldsMerged ==
    ModelRecordPresent =>
        /\ result.rec.email = IF this_isValidEmail(ruleBasedInfo.email)
                              THEN ruleBasedInfo.email ELSE aiResult.rec.email
        /\ result.rec.phone = IF this_isValidPhone(ruleBasedInfo.phone)
                              THEN ruleBasedInfo.phone ELSE aiResult.rec.phone
        /\ result.rec.linkedinUrl = IF this_isValidLinkedIn(ruleBasedInfo.linkedinUrl)
                                    THEN ruleBasedInfo.linkedinUrl ELSE aiResult.rec.linkedinUrl

\* a text that parses to a number strictly between 0 and 50
ParsesInsideRange(e) ==
    /\ e # Null
    /\ LET years == parseFloat(replaceAll(e, NSet(DigitCh \cup {"."}), NoFlags, ""))
       IN  Gt0(years) /\ Lt50(years)

\* C3: with a model record present, the returned experience is the model's
\* value exactly when that value parses to a number strictly greater than 0
\* and strictly less than 50, and the rule-based value in every other case.
C3_ExperienceMerged ==
    ModelRecordPresent =>
        result.rec.experience = IF ParsesInsideRange(aiResult.rec.experience)
                                THEN aiResult.rec.experience ELSE ruleBasedInfo.experience

FirstSeen(a, limit) == SubSeq(Dedup(a), 1, MinOf(limit, Len(Dedup(a))))

\* C4: with a model record present, each returned skill list (read once its
\* Promise has settled) is the model's list followed by the rule-based list,
\* later duplicates removed, first-seen order kept, cut to 8 entries.
C4_SkillsMerged ==
    ModelRecordPresent =>
        \A f \in SkillFields :
            (Settled(result.rec[f]) /\ Settled(ruleBasedInfo[f])) =>
                Awaited(result.rec[f]).items
                    = FirstSeen(aiResult.rec[f].items \o Awaited(ruleBasedInfo[f]).items, 8)

\* C5: with a model record present and additional fields requested, the
\* returned additionalFields holds every key of either side, and the
\* rule-based value for a key both sides have.
C5_AdditionalFieldsMerged ==
    (ModelRecordPresent /\ flag) =>
        /\ result.rec.additionalFields.present
        /\ LET rule == this_extractAdditionalFields(this_normalizeText(text))
               model == aiResult.rec.additionalFields.obj
               merged == result.rec.additionalFields.obj
           IN  /\ DOMAIN merged = (DOMAIN rule) \cup (DOMAIN model)
               /\ \A k \in DOMAIN rule : merged[k] = rule[k]
               /\ \A k \in (DOMAIN model) \ (DOMAIN rule) : merged[k] = model[k]

ReNumeral == Cat(<<Bol, Plus(D), Opt(Cat(<<Lit("."), Plus(D)>>)), Eol>>)

\* 'Not specified', or '<n> years' with 0 < n < 50
ExperienceInBounds(e) ==
    \/ e = "Not specified"
    \/ /\ e # Null
       /\ Len(e) > 6
       /\ SubSeq(e, Len(e) - 5, Len(e)) = " years"
       /\ test(ReNumeral, NoFlags, SubSeq(e, 1, Len(e) - 6))
       /\ Gt0(parseFloat(SubSeq(e, 1, Len(e) - 6)))
       /\ Lt50(parseFloat(SubSeq(e, 1, Len(e) - 6)))

\* C6: the experience of every record returned, and the value
\* extractExperienceWithAI returns on its own, is 'Not specified' or
\* '<n> years' with 0 < n < 50.
C6_ExperienceBounds ==
    /\ Returns => ExperienceInBounds(result.rec.experience)
    /\ result.op = "extractExperienceWithAI" => ExperienceInBounds(result.str)

NoDuplicates(a) == \A j, k \in 1..Len(a) : a[j] = a[k] => j = k

\* C7: the skill lists of every returned record (read once their Promises
\* have settled) hold no string twice and at most 8 entries.
C7_SkillsDedupAndCap ==
    Returns =>
        \A f \in SkillFields :
            Settled(result.rec[f]) =>
                /\ NoDuplicates(Awaited(result.rec[f]).items)
                /\ Len(Awaited(result.rec[f]).items) <= 8

\* C8: the linkedinUrl of every returned record is null or contains the
\* substring 'linkedin.com/in/'.
C8_LinkedInShape ==
    Returns =>
        \/ result.rec.linkedinUrl = Null
        \/ includes(result.rec.linkedinUrl, "linkedin.com/in/")

\* a formatted name of at least two words, or the sentinel
NameWellFormed(n) ==
    \/ n = "Name Not Found"
    \/ /\ n # Null
       /\ n # ""
       /\ Len(NonEmpty(split(n, " "))) >= 2

\* C9: the name of every returned record, and the name extractNameWithAI
\* returns, is never empty or null: a name of at least two words, or
\* 'Name Not Found'.
C9_NameSentinel ==
    /\ Returns => NameWellFormed(result.rec.name)
    /\ result.op = "extractNameWithAI" => NameWellFormed(result.str)

\* C10: two runs of the rule-based extraction on the same text give the same
\* record (both read once their Promises have settled).
C10_RuleBasedIdempotent ==
    (prev.valid /\ prev.text = text /\ \A id \in 1..2 : promises[id].st = "fulfilled") =>
        AwaitedRecord(ruleBasedInfo) = prev.rec

(***************************************************************************)
(* The model-assisted extractors of src/index.js (extractCandidateInfoAI,   *)
(* with its retry and its local fallback) and of src/unnamed/part_000       *)
(* (extractWithAI).  Several callers may have a call in hand at once.       *)
(***************************************************************************)
\* a response value that is present but is not an array (a string)
JsonText(s) == [isArray |-> FALSE, items |-> <<s>>]

ExtractorBody ==
    [name |-> Null, email |-> Null, phone |-> Null, experience |-> JsonNone,
     linkedinUrl |-> Null, currentPosition |-> Null, currentCompany |-> Null,
     primarySkills |-> JsonNotArr, secondarySkills |-> JsonNotArr,
     additionalFields |-> Absent]

\* what the model may answer to a record prompt: kind "scalar" is content
\* that parses as JSON but holds no object (a number)
ExtractorResponses ==
    { Failure("error"), Failure("text"), Failure("scalar"),
      Json([ExtractorBody EXCEPT
                !.name = "Al Bo", !.email = "ai@m.co", !.phone = "tel +1 000 000 0000",
                !.experience = JsonStr("5 years"), !.linkedinUrl = "linkedin.com/in/ai",
                !.currentPosition = "Engineer",
                !.primarySkills = JsonArr(<<"s1", "s2", "s3", "s4", "s5", "s6", "s7", "s8", "s9">>),
                !.secondarySkills = JsonArr(<<"Git">>),
                !.additionalFields = Obj([k \in {"education"} |-> "from model"])]),
      Json([ExtractorBody EXCEPT
                !.linkedinUrl = "example.com/me", !.primarySkills = JsonText("Go, Rust")]) }

\* src/index.js: text.slice(0, 15000)
safeText(t) == SubSeq(t, 1, MinOf(15000, Len(t)))

\* a skill field as a || [] keeps it: any truthy value unchanged
OrEmptyArray(x) ==
    IF x.isArray THEN Arr(x.items)
    ELSE IF x.items # <<>> THEN [kind |-> "string", id |-> 0, items |-> x.items]
    ELSE Arr(<<>>)

normalizeResult(parsed) ==
    [name |-> OrNull(parsed.name),
     email |-> OrNull(parsed.email),
     phone |-> OrNull(parsed.phone),
     experience |-> IF JsonTruthy(parsed.experience) THEN parsed.experience.v
                    ELSE "Not specified",
     linkedinUrl |-> OrNull(parsed.linkedinUrl),
     primarySkills |-> OrEmptyArray(parsed.primarySkills),
     secondarySkills |-> OrEmptyArray(parsed.secondarySkills),
     additionalFields |-> IF parsed.additionalFields.present THEN parsed.additionalFields
                          ELSE Obj(NoKeys)]

LocalKeys == {"education", "location", "currentRole", "summary", "certifications",
              "languages", "projects", "companies"}

\* extractExperienceWithAI tabulated over the inputs of the model, as RuleTable
RECURSIVE ExperienceAtDates(_, _)
ExperienceAtDates(t, d) ==
    IF d = 0 THEN <<>>
    ELSE Append(ExperienceAtDates(t, d - 1), Invoke("extractExperienceWithAI", <<t, Calendar[d]>>))

RECURSIVE ExperienceRows(_)
ExperienceRows(k) ==
    IF k = 0 THEN <<>> ELSE Append(ExperienceRows(k - 1), ExperienceAtDates(Samples[k], Len(Calendar)))

ExperienceTable == ExperienceRows(Len(Samples))

\* localExtract at date Calendar[d], as far as this model follows it: the
\* experience, and the keys of additionalFields (their values come from
\* extractors not modelled)
localExtract(t, extractAdditional, d) ==
    [experience |-> ExperienceTable[SampleIndex(t)][d],
     additionalFields |-> IF extractAdditional THEN Obj([k \in LocalKeys |-> "local"])
                          ELSE Absent]

\* src/unnamed/part_000
buildExtractionPrompt(resumeText, extractAdditional) ==
    [resumeText |-> resumeText, additionalFields |-> extractAdditional]

AIResumeExtractor_cleanPhone(phone) ==
    trim(replaceAll(phone, NSet(DigitCh \cup {"+", "-", "(", ")"} \cup SpaceCh), NoFlags, ""))

CleanLinkedIn(url) ==
    LET full == IF Truthy(url) /\ ~startsWith(url, "http") THEN "https://" \o url ELSE url
    IN  IF Truthy(full) /\ ~includes(full, "linkedin.com/in/") THEN Null ELSE OrNull(full)

validateAndCleanData(data) ==
    [name |-> IF Truthy(data.name) THEN data.name ELSE "Name Not Found",
     email |-> OrNull(data.email),
     phone |-> IF Truthy(data.phone) THEN AIResumeExtractor_cleanPhone(data.phone) ELSE Null,
     experience |-> IF JsonTruthy(data.experience) THEN data.experience.v
                    ELSE "Not specified",
     linkedinUrl |-> CleanLinkedIn(data.linkedinUrl),
     currentPosition |-> OrNull(data.currentPosition),
     currentCompany |-> OrNull(data.currentCompany),
     primarySkills |-> IF data.primarySkills.isArray
                       THEN Arr(SubSeq(data.primarySkills.items, 1,
                                       MinOf(8, Len(data.primarySkills.items))))
                       ELSE Arr(<<>>),
     secondarySkills |-> IF data.secondarySkills.isArray
                         THEN Arr(SubSeq(data.secondarySkills.items, 1,
                                         MinOf(8, Len(data.secondarySkills.items))))
                         ELSE Arr(<<>>),
     additionalFields |-> data.additionalFields]

\* the texts the extractor calls are made with
ExtractorTexts == {Samples[1], Samples[6]}

Models == {"unset", "gpt-5-nano", "gpt-4o-mini"}

Request(model, resumeText) == [model |-> model, resumeText |-> resumeText, st |-> "pending"]

\* the last request of a call, settled: st becomes the kind of the answer
Settle(requests, st) == [requests EXCEPT ![Len(requests)].st = st]

ExtractorInit ==
    /\ CoreInit
    /\ ServerQuiet
    /\ OPENAI_MODEL \in Models
    /\ client \in BOOLEAN
    /\ calls = [c \in Callers |-> NoCall]
    /\ batch = NoBatch

\* src/index.js extractCandidateInfoAI(t, f), up to its await; without a
\* client the whole call, which is then the local extraction
IndexCall(c, t, f, d) ==
    /\ calls[c].pc = "idle"
    /\ calls' = [calls EXCEPT ![c] =
           IF client
           THEN [fn |-> "extractCandidateInfoAI", pc |-> "await", text |-> t, flag |-> f,
                 requests |-> <<Request(IF OPENAI_MODEL = "unset" THEN "gpt-4o-mini"
                                        ELSE OPENAI_MODEL, safeText(t))>>,
                 outcome |-> NoOutcome]
           ELSE [fn |-> "extractCandidateInfoAI", pc |-> "done", text |-> t, flag |-> f,
                 requests |-> <<>>,
                 outcome |-> [kind |-> "local", rec |-> localExtract(t, f, d)]]]
    /\ UNCHANGED <<coreVars, serverVars, OPENAI_MODEL, client, batch>>

\* the request in flight settles: the call runs from its await to its return,
\* or, through the catch block and the recursive call, to its next await
IndexSettle(c, response, d) ==
    /\ calls[c].pc = "await"
    /\ calls[c].fn = "extractCandidateInfoAI"
    /\ IF response.kind = "json"
       THEN /\ calls' = [calls EXCEPT ![c].pc = "done",
                                      ![c].requests = Settle(@, response.kind),
                                      ![c].outcome = [kind |-> "record",
                                                      rec |-> normalizeResult(response.body)]]
            /\ UNCHANGED OPENAI_MODEL
       ELSE IF OPENAI_MODEL = "gpt-5-nano"
       THEN /\ OPENAI_MODEL' = "gpt-4o-mini"
            /\ calls' = [calls EXCEPT ![c].requests =
                             Append(Settle(@, response.kind),
                                    Request("gpt-4o-mini", safeText(calls[c].text)))]
       ELSE /\ calls' = [calls EXCEPT ![c].pc = "done",
                                      ![c].requests = Settle(@, response.kind),
                                      ![c].outcome =
                                          [kind |-> "local",
                                           rec |-> localExtract(calls[c].text, calls[c].flag, d)]]
            /\ UNCHANGED OPENAI_MODEL
    /\ UNCHANGED <<coreVars, serverVars, client, batch>>

\* src/unnamed/part_000 extractWithAI(t, f), up to its await
ExtractWithAICall(c, t, f) ==
    /\ calls[c].pc = "idle"
    /\ calls' = [calls EXCEPT ![c] =
           [fn |-> "extractWithAI", pc |-> "await", text |-> t, flag |-> f,
            requests |-> <<Request("gpt-4o-mini", buildExtractionPrompt(t, f).resumeText)>>,
            outcome |-> NoOutcome]]
    /\ UNCHANGED <<coreVars, serverVars, OPENAI_MODEL, client, batch>>

\* its request settles: the call returns the cleaned record of whatever
\* JSON.parse gave, or rejects when the request failed or JSON.parse threw
ExtractWithAISettle(c, response) ==
    /\ calls[c].pc = "await"
    /\ calls[c].fn = "extractWithAI"
    /\ calls' = [calls EXCEPT
           ![c].pc = "done",
           ![c].requests = Settle(@, response.kind),
           ![c].outcome =
               IF response.kind = "json"
               THEN [kind |-> "record", rec |-> validateAndCleanData(response.body)]
               ELSE IF response.kind = "scalar"   \* a number has none of the properties
               THEN [kind |-> "record", rec |-> validateAndCleanData(ExtractorBody)]
               ELSE [kind |-> "rejected", rec |-> EmptyRecord]]
    /\ UNCHANGED <<coreVars, serverVars, OPENAI_MODEL, client, batch>>

ExtractorNext ==
    \/ \E c \in Callers, t \in ExtractorTexts, f \in BOOLEAN, d \in Dates : IndexCall(c, t, f, d)
    \/ \E c \in Callers, response \in ExtractorResponses, d \in Dates : IndexSettle(c, response, d)
    \/ \E c \in Callers, t \in ExtractorTexts, f \in BOOLEAN : ExtractWithAICall(c, t, f)
    \/ \E c \in Callers, response \in ExtractorResponses : ExtractWithAISettle(c, response)

ExtractorSpec == ExtractorInit /\ [][ExtractorNext]_vars

\* a call that has returned a record (it did not reject)
ReturnedRecord(c) == calls[c].pc = "done" /\ calls[c].outcome.kind \in {"record", "local"}

\* C11: additionalFields is present in a returned record only if the call
\* was made with extractAdditionalFields = true; with the flag false the
\* record has none, whatever the model answered.
C11_AdditionalFieldsOnlyOnRequest ==
    /\ Returns => (result.rec.additionalFields.present => flag)
    /\ \A c \in Callers :
           ReturnedRecord(c) => (calls[c].outcome.rec.additionalFields.present => calls[c].flag)

(***************************************************************************)
(* The upload route (src/unnamed/part_001) and the candidate store of       *)
(* src/services/resumeParser.js: parseResume, getCandidateById,             *)
(* clearAllCandidates.                                                      *)
(***************************************************************************)
\* the files uploaded in all, over one request or several
MaxFiles == 2

supportedFormats == {".pdf", ".docx", ".doc", ".txt"}

\* an uploaded file: its extension, and what reading it gives
FileKinds ==
    { [ext |-> ".pdf", content |-> "text"],
      [ext |-> ".eml", content |-> "text"],
      [ext |-> ".pdf", content |-> "unreadable"],
      [ext |-> ".docx", content |-> "blank"] }

Batches == UNION {[1..n -> FileKinds] : n \in 1..MaxFiles}

\* the text of a readable file, and of a blank one
FileText == Samples[1]
BlankText == " \n\t"

RequestKinds == {"extractCandidateInfoAI", "extractPrimarySkills", "extractSecondarySkills"}

\* the model requests extractCandidateInfoWithAI sends for document doc;
\* answers tells whether the awaited one is ever answered
RequestsOf(doc, answers) ==
    {[doc |-> doc, kind |-> kind, answers |-> (kind = "extractCandidateInfoAI") => answers] :
        kind \in RequestKinds}

\* (a variant with a plausible fault: the first failure ends the batch)
FailAndRespond(u, reason) ==
    [u EXCEPT !.phase = "responded",
              !.errors = Append(@, [file |-> u.k,
                                    error |-> "Failed to parse resume: " \o reason])]

\* the catch block of the route's loop: the file is reported as failed (the
\* route then awaits fs.remove)
Fail(u, reason) ==
    [u EXCEPT !.phase = "cleanup",
              !.errors = Append(@, [file |-> u.k,
                                    error |-> "Failed to parse resume: " \o reason])]

\* the route's loop reaches file k: parseResume runs to its first await, or
\* throws on the extension; after the last file the response is sent
Begin(u, k) ==
    IF k > Len(u.files) THEN [u EXCEPT !.k = k, !.phase = "responded"]
    ELSE IF u.files[k].ext \notin supportedFormats
    THEN Fail([u EXCEPT !.k = k], "Unsupported file format: " \o u.files[k].ext)
    ELSE [u EXCEPT !.k = k, !.phase = "extracting"]

\* (variants with a plausible fault, used to test the properties below)
PushOverLast(store, candidateData) ==
    IF store = <<>> THEN <<candidateData>> ELSE [store EXCEPT ![Len(store)] = candidateData]
NotEmptyString(extractedText) == extractedText # ""

\* the guard of parseResume on the extracted text: !extractedText.trim()
HasText(extractedText) == trim(extractedText) # ""

\* candidatesStorage.push(candidateData)
Push(store, candidateData) == Append(store, candidateData)

\* candidatesStorage.find(candidate => candidate.id === id)
getCandidateById(id) ==
    LET found == SelectSeq(candidatesStorage, LAMBDA candidate : candidate.id = id)
    IN  IF found = <<>> THEN NoCandidate ELSE found[1]

\* the document the route has in hand
Doc == [u |-> uploads, k |-> upload.k]

UploadInit == CoreInit /\ ExtractorQuiet /\ ServerQuiet

\* POST /: a batch of files arrives and the loop starts on the first
Upload(files, f) ==
    /\ upload.phase \in {"none", "responded"}
    /\ upload.received + Len(files) <= MaxFiles
    /\ uploads' = uploads + 1
    /\ upload' = Begin([NoUpload EXCEPT !.files = files, !.flag = f,
                                        !.received = upload.received + Len(files)], 1)
    /\ UNCHANGED <<coreVars, extractorVars, candidatesStorage, uuids, inflight, issued, clearing>>

\* the text extraction of parseResume ends; with a text in hand
\* extractCandidateInfoWithAI runs to its await, sending its three requests
TextExtracted(d, answers) ==
    /\ upload.phase = "extracting"
    /\ LET content == upload.files[upload.k].content
           extractedText == IF content = "blank" THEN BlankText ELSE FileText
       IN  IF content = "unreadable"
           THEN /\ upload' = Fail(upload, "PDF extraction failed: bad XRef entry")
                /\ UNCHANGED <<inflight, issued>>
           ELSE IF ~HasText(extractedText)
           THEN /\ upload' = Fail(upload, "No text content found in the resume")
                /\ UNCHANGED <<inflight, issued>>
           ELSE /\ upload' = [upload EXCEPT !.phase = "awaitAI",
                                            !.ruleBased = RuleBasedAt(extractedText, d)]
                /\ inflight' = inflight \cup RequestsOf(Doc, answers)
                /\ issued' = issued \cup {[doc |-> r.doc, kind |-> r.kind] : r \in RequestsOf(Doc, answers)}
    /\ UNCHANGED <<coreVars, extractorVars, candidatesStorage, uuids, uploads, clearing>>

\* a quickAnalyze request is answered: its async function completes
QuickAnalyzeAnswers(r) ==
    /\ r \in inflight
    /\ r.kind # "extractCandidateInfoAI"
    /\ inflight' = inflight \ {r}
    /\ UNCHANGED <<coreVars, extractorVars, candidatesStorage, uuids, upload, uploads, issued, clearing>>

\* the awaited request is answered: extractCandidateInfoWithAI returns and
\* parseResume runs to its await of fs.stat
RecordAnswers(response) ==
    /\ upload.phase = "awaitAI"
    /\ [doc |-> Doc, kind |-> "extractCandidateInfoAI", answers |-> TRUE] \in inflight
    /\ inflight' = inflight \ {[doc |-> Doc, kind |-> "extractCandidateInfoAI", answers |-> TRUE]}
    /\ uuids' = uuids + 1
    /\ upload' = [upload EXCEPT
           !.phase = "stat",
           !.candidate = [id |-> uuids + 1, originalFileName |-> Doc,
                          data |-> Invoke("Returned", <<response, upload.ruleBased,
                                                        upload.flag, FileText>>)]]
    /\ UNCHANGED <<coreVars, extractorVars, candidatesStorage, uploads, issued, clearing>>

\* fs.stat ends: the record is stored and reported, or the file has failed
StatDone(ok) ==
    /\ upload.phase = "stat"
    /\ IF ok
       THEN /\ candidatesStorage' = Push(candidatesStorage, upload.candidate)
            /\ upload' = Begin([upload EXCEPT !.results =
                                    Append(@, [file |-> upload.k, id |-> upload.candidate.id])],
                               upload.k + 1)
       ELSE /\ upload' = Fail(upload, "ENOENT: no such file or directory")
            /\ UNCHANGED candidatesStorage
    /\ UNCHANGED <<coreVars, extractorVars, uuids, uploads, inflight, issued, clearing>>

\* fs.remove of a failed file ends: the loop goes on
CleanupDone ==
    /\ upload.phase = "cleanup"
    /\ upload' = Begin(upload, upload.k + 1)
    /\ UNCHANGED <<coreVars, extractorVars, candidatesStorage, uuids, uploads, inflight, issued, clearing>>

\* DELETE /clear: clearAllCandidates runs to its first await, or, with
\* nothing stored, to its end
ClearBegin ==
    /\ ~clearing.active
    /\ IF candidatesStorage = <<>>
       THEN /\ clearing' = NotClearing
            /\ UNCHANGED candidatesStorage
       ELSE /\ clearing' = [active |-> TRUE, i |-> 1, count |-> Len(candidatesStorage)]
            /\ UNCHANGED candidatesStorage
    /\ UNCHANGED <<coreVars, extractorVars, uuids, upload, uploads, inflight, issued>>

\* fs.remove of the file of candidate i ends: the loop goes on to the next
\* candidate of the array as it is now, or the array is emptied and count is
\* returned (clearing then keeps the count returned and, in i, the number of
\* records the array held when it was emptied)
ClearStep ==
    /\ clearing.active
    /\ IF clearing.i < Len(candidatesStorage)
       THEN /\ clearing' = [clearing EXCEPT !.i = @ + 1]
            /\ UNCHANGED candidatesStorage
       ELSE /\ candidatesStorage' = <<>>
            /\ clearing' = [clearing EXCEPT !.active = FALSE]
    /\ UNCHANGED <<coreVars, extractorVars, uuids, upload, uploads, inflight, issued>>

UploadNext ==
    \/ \E files \in Batches, f \in BOOLEAN : Upload(files, f)
    \/ \E d \in Dates, answers \in BOOLEAN : TextExtracted(d, answers)
    \/ \E r \in inflight : QuickAnalyzeAnswers(r)
    \/ \E response \in AIResponses : RecordAnswers(response)
    \/ \E ok \in BOOLEAN : StatDone(ok)
    \/ CleanupDone
    \/ ClearBegin
    \/ ClearStep

UploadSpec == UploadInit /\ [][UploadNext]_vars

\* the handler steps run when they can, and a request that is answered at
\* all is answered in the end; a request the model never answers stays
UploadLiveSpec ==
    /\ UploadSpec
    /\ WF_vars(\E d \in Dates, answers \in BOOLEAN : TextExtracted(d, answers))
    /\ WF_vars(\E r \in inflight : QuickAnalyzeAnswers(r))
    /\ WF_vars(\E response \in AIResponses : RecordAnswers(response))
    /\ WF_vars(\E ok \in BOOLEAN : StatDone(ok))
    /\ WF_vars(CleanupDone)
    /\ WF_vars(ClearStep)

StoredIds == {candidatesStorage[j].id : j \in 1..Len(candidatesStorage)}
Files(outcomes) == [j \in 1..Len(outcomes) |-> outcomes[j].file]
Ascending(a) == \A j \in 1..(Len(a) - 1) : a[j] < a[j + 1]
Elements(a) == {a[j] : j \in 1..Len(a)}

\* C12: the store only grows between bulk clears: a step either leaves it
\* alone, or is the end of a parseResume call that resolves, which appends
\* exactly one record with an id no stored record has, or is the end of
\* clearAllCandidates; every parseResume call that resolves appends its
\* record; and every stored record is what getCandidateById gives for its id.
C12_StoreOnlyGrows ==
    [][/\ \/ candidatesStorage' = candidatesStorage
          \/ /\ Len(upload'.results) = Len(upload.results) + 1
             /\ Len(candidatesStorage') = Len(candidatesStorage) + 1
             /\ SubSeq(candidatesStorage', 1, Len(candidatesStorage)) = candidatesStorage
             /\ candidatesStorage'[Len(candidatesStorage')].id \notin StoredIds
             /\ candidatesStorage'[Len(candidatesStorage')].id
                    = upload'.results[Len(upload'.results)].id
          \/ clearing.active /\ candidatesStorage' = <<>>
       /\ (uploads' = uploads /\ Len(upload'.results) > Len(upload.results))
              => Len(candidatesStorage') = Len(candidatesStorage) + 1
       /\ \A j \in 1..Len(candidatesStorage') :
              getCandidateById(candidatesStorage[j].id)' = candidatesStorage'[j]
      ]_vars

C12_Witness ==
    /\ upload.phase = "responded"
    /\ Len(candidatesStorage) = 2
    /\ getCandidateById(upload.results[Len(upload.results)].id) = candidatesStorage[2]
    /\ ~clearing.active

\* the files the loop of the route is through with
Through == IF upload.phase = "cleanup" THEN 1..upload.k ELSE 1..(upload.k - 1)

InputFailure(file) ==
    IF file.ext \notin supportedFormats THEN "Unsupported file format: " \o file.ext
    ELSE IF file.content = "unreadable" THEN "PDF extraction failed: bad XRef entry"
    ELSE IF file.content = "blank" THEN "No text content found in the resume"
    ELSE ""

\* C14: a file of an unsupported format, a file whose text extraction fails
\* and a file whose text is empty or whitespace each make parseResume fail
\* with a reason; no record of such a file is stored and no model request is
\* ever made for it.
C14_InputFailures ==
    \A k \in 1..Len(upload.files) :
        InputFailure(upload.files[k]) # "" =>
            /\ k \in Through =>
                   \E j \in 1..Len(upload.errors) :
                       upload.errors[j] = [file |-> k,
                                           error |-> "Failed to parse resume: "
                                                       \o InputFailure(upload.files[k])]
            /\ \A r \in issued : r.doc # [u |-> uploads, k |-> k]
            /\ \A j \in 1..Len(candidatesStorage) :
                   candidatesStorage[j].originalFileName # [u |-> uploads, k |-> k]

C14_Witness ==
    /\ upload.phase = "responded"
    /\ Len(upload.files) = 2
    /\ upload.files[1].content = "text" /\ upload.files[1].ext = ".pdf"
    /\ upload.files[2].content = "blank"
    /\ Len(candidatesStorage) = 1
    /\ Len(upload.errors) = 1

\* C15: within one upload request the documents are handled strictly one
\* after another: every model request in flight belongs to the document the
\* route has in hand, so requests of two documents are never in flight
\* together.
C15_OneDocumentAtATime ==
    /\ \A r \in inflight :
           (r.doc.u = uploads /\ upload.phase # "responded") => r.doc.k = upload.k
    /\ \A r1, r2 \in inflight : r1.doc.u = r2.doc.u => r1.doc.k = r2.doc.k

\* C16: an upload request always receives its response, also when a
\* model-assisted call is never answered.
C16_UploadCompletes ==
    (upload.phase \notin {"none", "responded"}) ~> (upload.phase = "responded")

\* the calls of extractCandidateInfoAI of src/index.js, and the last request of a call
IndexCalls == {c \in Callers : calls[c].fn = "extractCandidateInfoAI"}
LastRequest(c) == calls[c].requests[Len(calls[c].requests)]
Answered(c) == calls[c].pc = "done" /\ calls[c].requests # <<>>

\* C17: a call of extractCandidateInfoAI whose request with 'gpt-5-nano'
\* failed has repeated it with 'gpt-4o-mini', once; no call makes more than
\* two requests; a call whose last request failed ends in the local
\* extraction.
C17_RetryOnce ==
    \A c \in IndexCalls :
        /\ Len(calls[c].requests) <= 2
        /\ (Answered(c) /\ calls[c].requests[1].model = "gpt-5-nano"
                /\ calls[c].requests[1].st # "json") =>
               /\ Len(calls[c].requests) = 2
               /\ calls[c].requests[2].model = "gpt-4o-mini"
        /\ (Answered(c) /\ LastRequest(c).st # "json") => calls[c].outcome.kind = "local"

\* C18: an answer that holds no JSON object, or does not parse, ends the
\* extractor call in an error: never in a returned record.
C18_MalformedIsHardFailure ==
    \A c \in Callers :
        (Answered(c) /\ LastRequest(c).st \in {"text", "scalar"}) =>
            calls[c].outcome.kind = "rejected"

SkillCap == 8

\* C19: in the normalized record of an answer that parsed, both skill fields
\* are arrays of at most SkillCap entries, and the name is null or a string
\* that is not empty.
C19_NormalizedShape ==
    \A c \in Callers :
        (Answered(c) /\ calls[c].outcome.kind = "record") =>
            /\ calls[c].outcome.rec.name # ""
            /\ \A f \in SkillFields :
                   /\ calls[c].outcome.rec[f].kind = "array"
                   /\ Len(calls[c].outcome.rec[f].items) <= SkillCap

(***************************************************************************)
(* The resume text each model-calling function puts into its prompt.        *)
(***************************************************************************)
\* a text of n characters
RECURSIVE Filler(_)
Filler(n) ==
    IF n = 0 THEN "" ELSE IF n = 1 THEN "x" ELSE Filler(n \div 2) \o Filler(n - n \div 2)

\* lengths below, at and above each cut the code makes
PromptLengths == {0, 120, 1999, 2000, 2001, 2999, 3000, 3001, 14999, 15000, 15001, 16000}
PromptTexts == {Filler(n) : n \in PromptLengths}

\* src/services/aiResumeExtractor.js generatePrompt: text.substring(0, 3000)
generatePrompt(t, extractAdditional) ==
    [resumeText |-> SubSeq(t, 1, MinOf(3000, Len(t))), additionalFields |-> extractAdditional]

\* src/services/resumeParser.js extractPrimarySkills, extractSecondarySkills:
\* text.substring(0, 2000)
skillsPrompt(t) == SubSeq(t, 1, MinOf(2000, Len(t)))

PromptInit ==
    /\ text \in PromptTexts
    /\ flag \in BOOLEAN
    /\ today = 1
    /\ pc = "idle"
    /\ ruleBasedInfo = EmptyRecord
    /\ promises = [id \in 1..2 |-> Unissued]
    /\ aiResult = NoAI
    /\ result = NoResult
    /\ prev = NoPrev
    /\ runs = 0
    /\ ExtractorQuiet
    /\ ServerQuiet

\* a function builds the prompt of its request from the text in hand
Prompted(op, resumeText) ==
    /\ result.op = "none"
    /\ result' = [op |-> op, rec |-> EmptyRecord, str |-> resumeText]
    /\ UNCHANGED <<text, flag, today, pc, ruleBasedInfo, promises, aiResult, prev, runs>>
    /\ UNCHANGED <<extractorVars, serverVars>>

GeneratePrompt == Prompted("generatePrompt", generatePrompt(text, flag).resumeText)
ExtractCandidateInfoAIPrompt == Prompted("extractCandidateInfoAI", safeText(text))
BuildExtractionPrompt == Prompted("buildExtractionPrompt", buildExtractionPrompt(text, flag).resumeText)
ExtractPrimarySkillsPrompt == Prompted("extractPrimarySkills", skillsPrompt(normalizeText(text)))
ExtractSecondarySkillsPrompt == Prompted("extractSecondarySkills", skillsPrompt(normalizeText(text)))

PromptNext ==
    \/ GeneratePrompt
    \/ ExtractCandidateInfoAIPrompt
    \/ BuildExtractionPrompt
    \/ ExtractPrimarySkillsPrompt
    \/ ExtractSecondarySkillsPrompt

PromptSpec == PromptInit /\ [][PromptNext]_vars

SkillsBudget == 2000
RecordBudget == 3000
SafeTextBudget == 15000

\* the characters of resume text a function may put into its prompt
Budget(op) ==
    IF op \in {"extractPrimarySkills", "extractSecondarySkills"} THEN SkillsBudget
    ELSE IF op = "generatePrompt" THEN RecordBudget
    ELSE SafeTextBudget

\* C20: the prompt of every model-calling function carries at most a fixed
\* number of characters of the resume text (2000 for the skill prompts, 3000
\* for generatePrompt, 15000 for the other record prompts), however long the
\* text is.
C20_PromptWithinBudget ==
    result.op \in {"generatePrompt", "extractCandidateInfoAI", "buildExtractionPrompt",
                   "extractPrimarySkills", "extractSecondarySkills"}
        => Len(result.str) <= Budget(result.op)

(***************************************************************************)
(* batchExtract of src/unnamed/part_000: the texts are handed to            *)
(* extractWithAI in groups, a pause between two groups.                     *)
(***************************************************************************)
MaxTexts == 11
batchSize == 5

\* what the model answers to the requests of a batch
BatchResponses ==
    {r \in ExtractorResponses : r.kind = "error" \/ (r.kind = "json" /\ r.body.name # Null)}

Unstarted == [st |-> "unstarted", out |-> NoOutcome]
InFlight == [st |-> "pending", out |-> NoOutcome]

\* the group that starts after index i of a list of n texts
GroupAt(i, n) == (i + 1)..MinOf(i + batchSize, n)

\* every text from index i on handed to extractWithAI at once
StartAll(b, i) ==
    [b EXCEPT !.pc = "awaitAll", !.i = i,
              !.calls = [k \in 1..b.n |-> IF k > i THEN InFlight ELSE b.calls[k]]]

\* batch.map(text => this.extractWithAI(...).catch(...)): every call of the
\* group runs to its await, its request sent
StartGroup(b, i) ==
    [b EXCEPT !.pc = "awaitAll", !.i = i,
              !.calls = [k \in 1..b.n |-> IF k \in GroupAt(i, b.n) THEN InFlight ELSE b.calls[k]]]

\* the value of the Promise of one call, its rejection caught
CaughtOf ==
    [r \in BatchResponses |->
        IF r.kind = "json"
        THEN [kind |-> "record", rec |-> validateAndCleanData(r.body)]
        ELSE [kind |-> "error", rec |-> EmptyRecord]]

Caught(response) == CaughtOf[response]

\* Promise.all has resolved: the results of the group are pushed in the order
\* of the texts; a further group waits for the pause
AfterGroup(b) ==
    LET pushed == b.results \o [j \in 1..Cardinality(GroupAt(b.i, b.n)) |-> b.calls[b.i + j].out]
    IN  IF b.i + batchSize < b.n
        THEN [b EXCEPT !.pc = "pause", !.results = pushed]
        ELSE [b EXCEPT !.pc = "done", !.results = pushed, !.i = b.i + batchSize]

\* batchExtract(resumeTexts, extractAdditionalFields), up to its first await
BatchExtract(n, f) ==
    /\ batch.pc = "idle"
    /\ LET b == [NoBatch EXCEPT !.n = n, !.flag = f, !.calls = [k \in 1..n |-> Unstarted]]
       IN  batch' = IF n = 0 THEN [b EXCEPT !.pc = "done"] ELSE StartGroup(b, 0)
    /\ UNCHANGED <<coreVars, serverVars, OPENAI_MODEL, client, calls>>

\* the request of call k is answered; with the last call of the group settled
\* the function runs on from await Promise.all
BatchSettle(k, response) ==
    /\ batch.pc = "awaitAll"
    /\ k \in 1..batch.n
    /\ batch.calls[k].st = "pending"
    /\ LET b == [batch EXCEPT !.calls[k] = [st |-> "settled", out |-> Caught(response)]]
       IN  batch' = IF \E j \in GroupAt(b.i, b.n) : b.calls[j].st = "pending" THEN b
                    ELSE AfterGroup(b)
    /\ UNCHANGED <<coreVars, serverVars, OPENAI_MODEL, client, calls>>

\* the timer of the pause fires: i += batchSize and the next group starts
BatchTimer ==
    /\ batch.pc = "pause"
    /\ batch' = StartGroup([batch EXCEPT !.pauses = @ + 1], batch.i + batchSize)
    /\ UNCHANGED <<coreVars, serverVars, OPENAI_MODEL, client, calls>>

BatchInit == CoreInit /\ ExtractorQuiet /\ ServerQuiet

BatchNext ==
    \/ \E n \in 0..MaxTexts, f \in BOOLEAN : BatchExtract(n, f)
    \/ \E k \in 1..MaxTexts, response \in BatchResponses : BatchSettle(k, response)
    \/ BatchTimer

\* every request is answered or ends in an error of the client, and the timer
\* of the pause fires
BatchSpec ==
    /\ BatchInit
    /\ [][BatchNext]_vars
    /\ \A k \in 1..MaxTexts : WF_vars(\E response \in BatchResponses : BatchSettle(k, response))
    /\ WF_vars(BatchTimer)

Started(k) == batch.calls[k].st # "unstarted"
GroupOf(k) == (k - 1) \div batchSize

BatchSafe ==
    /\ Cardinality({k \in 1..batch.n : batch.calls[k].st = "pending"}) <= batchSize
    /\ \A k \in 1..batch.n : Started(k) =>
           /\ \A j \in 1..batch.n : GroupOf(j) = GroupOf(k) => Started(j)
           /\ \A j \in 1..batch.n : GroupOf(j) < GroupOf(k) => batch.calls[j].st = "settled"
           /\ batch.pauses >= GroupOf(k)

\* C21: batchExtract has at most 5 model calls in flight; the calls of a
\* group are started together, and a group is started only when every call of
\* the groups before it has settled and one pause per earlier group has
\* elapsed; every batchExtract call ends, with one result per text, failed
\* calls included.
C21_BoundedBatches ==
    /\ []BatchSafe
    /\ (batch.pc # "idle") ~> (batch.pc = "done" /\ Len(batch.results) = batch.n)

\* a list of three groups done, a call of the first group having failed
C21_Witness ==
    /\ batch.pc = "done"
    /\ batch.n > 2 * batchSize
    /\ batch.pauses = 2
    /\ Len(batch.results) = batch.n
    /\ batch.results[2].kind = "error"
    /\ batch.results[batch.n].kind = "record"

(***************************************************************************)
(* The rule-based extractors applied to a text, one function at a time.     *)
(***************************************************************************)
TwoRanges(dash, between) ==
    "2018 " \o dash \o " 2021" \o between \o "2021 " \o dash \o " Present"

\* texts that hold the ranges 2018 - 2021 and 2021 - Present and no stated
\* number of years
TwoRangeTexts ==
    { TwoRanges(EnDash, "\n"), TwoRanges("-", "\n"), TwoRanges(EnDash, " and "),
      "Work\n" \o TwoRanges("-", ", then ") \o "\nend" }

\* texts with the word linkedin, no linkedin.com/in/ address and no handle after
\* the word
BareLinkedInTexts ==
    { "GitHub | linkedin | a@b.co", "Find me on linkedin.", "linkedin", "linkedin, github" }

\* texts in which a skill of the vocabulary occurs only inside an email
\* address or a URL
EmbeddedSkillTexts ==
    { [t |-> "Contact: me@rust.dev\nSkills: Python", skill |-> "Rust"],
      [t |-> "Skills: Go\nmail al@python.dev or see http://java.io", skill |-> "Python"],
      [t |-> "Skills: Go\nmail al@python.dev or see http://java.io", skill |-> "Java"],
      [t |-> "code at http://github.com/al\nTools: Docker", skill |-> "GitHub"] }

\* texts with more skills than the cuts keep, equal and unequal scores
ManySkillTexts ==
    { "Skills: Java, Python, Go, Rust, PHP, Ruby, Swift, Dart, React, Vue",
      "Flask\nTools: Git, GitHub, JIRA, Slack, Docker, Jenkins, Postman, Trello\n2 years Docker",
      "Vue and React. " \o Filler(60) \o " 4 years of React, Docker; expert skill: AWS, Git" }

\* texts with several name candidates, or none
NameTexts ==
    { "Project Manager\nENGINEERING",
      "a\nb\nc\nd\ne\nf\ng\nh\nRavi Kumar\nJOHN SMITH DOE",
      "Anna Lee\nJOHN SMITH DOE\nRavi Kumar",
      "curriculum vitae\nAnna Lee\nRavi Kumar",
      "nothing to see here" }

\* texts whose first lines are a job title or a section header
TitleTexts ==
    { "SOFTWARE ENGINEER\nnotes", "WORK EXPERIENCE\nacme", "Test Lead\n9 Elm Street",
      "TECHNICAL SKILLS\nal@b.co" }

RuleTexts ==
    TwoRangeTexts \cup BareLinkedInTexts \cup {e.t : e \in EmbeddedSkillTexts}
        \cup ManySkillTexts \cup NameTexts \cup TitleTexts

RuleInit ==
    /\ text \in RuleTexts
    /\ today \in Dates
    /\ flag = FALSE
    /\ pc = "idle"
    /\ ruleBasedInfo = EmptyRecord
    /\ promises = [id \in 1..2 |-> Unissued]
    /\ aiResult = NoAI
    /\ result = NoResult
    /\ prev = NoPrev
    /\ runs = 0
    /\ ExtractorQuiet
    /\ ServerQuiet

\* a function is applied to the text in hand and returns a string
Applied(op, value) ==
    /\ result.op = "none"
    /\ result' = [op |-> op, rec |-> EmptyRecord, str |-> value]
    /\ UNCHANGED <<text, flag, today, pc, ruleBasedInfo, promises, aiResult, prev, runs>>
    /\ UNCHANGED <<extractorVars, serverVars>>

\* src/services/resumeParser.js, on the normalized text as its caller gives it
ApplyExtractExperienceEnhanced ==
    Applied("extractExperienceEnhanced",
            this_extractExperienceEnhanced(this_normalizeText(text), Calendar[today]))

\* src/index.js
ApplyExtractExperienceWithAI ==
    Applied("extractExperienceWithAI", this_extractExperienceWithAI(text, Calendar[today]))

\* src/services/resumeParser.js
ApplyExtractLinkedIn ==
    Applied("extractLinkedIn", this_extractLinkedIn(this_normalizeText(text)))

\* a function is applied to the text in hand and returns a list of skills
AppliedSkills(op, isPrimary, items) ==
    /\ result.op = "none"
    /\ flag' = isPrimary
    /\ result' = [op |-> op, rec |-> [EmptyRecord EXCEPT !.primarySkills = Arr(items)], str |-> ""]
    /\ UNCHANGED <<text, today, pc, ruleBasedInfo, promises, aiResult, prev, runs>>
    /\ UNCHANGED <<extractorVars, serverVars>>

\* src/index.js extractSkillsWithAI(text, isPrimary)
ApplyExtractSkillsWithAI(isPrimary) ==
    AppliedSkills("extractSkillsWithAI", isPrimary, this_extractSkillsWithAI(text, isPrimary))

\* src/utils/textExtractor.js extractSkillsWithAI(text, isPrimary): every skill
\* of its vocabulary has two letters or more, so the first findSkillContexts
\* call runs past its try block to the loop that reads skillRegex, a const of
\* the try block, and throws; extractSkillsWithAI does not catch
TextExtractor_extractSkillsWithAI(t, isPrimary) ==
    "ReferenceError: skillRegex is not defined"

ApplyTextExtractorSkills(isPrimary) ==
    /\ flag' = isPrimary
    /\ result.op = "none"
    /\ result' = [op |-> "textExtractor.extractSkillsWithAI", rec |-> EmptyRecord,
                  str |-> TextExtractor_extractSkillsWithAI(text, isPrimary)]
    /\ UNCHANGED <<text, today, pc, ruleBasedInfo, promises, aiResult, prev, runs>>
    /\ UNCHANGED <<extractorVars, serverVars>>

\* src/utils/textExtractor.js
ApplyExtractNameWithAI == Applied("extractNameWithAI", this_extractNameWithAI(text))

\* src/services/resumeParser.js, on the normalized text as its caller gives it
ApplyExtractNameEnhanced ==
    Applied("extractNameEnhanced", this_extractNameEnhanced(this_normalizeText(text)))

RuleNext ==
    \/ ApplyExtractNameWithAI
    \/ ApplyExtractNameEnhanced
    \/ ApplyExtractExperienceEnhanced
    \/ ApplyExtractExperienceWithAI
    \/ ApplyExtractLinkedIn
    \/ \E isPrimary \in BOOLEAN : ApplyExtractSkillsWithAI(isPrimary)
    \/ \E isPrimary \in BOOLEAN : ApplyTextExtractorSkills(isPrimary)

RuleSpec == RuleInit /\ [][RuleNext]_vars

\* C22: for a text with the ranges 2018 - 2021 and 2021 - Present and no
\* stated number of years, read in 2025, the rule-based experience extractors
\* return 7 years (3 + 4: the open range counts current year - start year).
C22_RangesSummed ==
    (/\ result.op \in {"extractExperienceEnhanced", "extractExperienceWithAI"}
     /\ text \in TwoRangeTexts
     /\ Calendar[today].year = 2025)
        => result.str = "7 years"

\* C23: for a text that holds the word linkedin but no linkedin.com/in/
\* address and no handle next to the word, extractLinkedIn returns null.
C23_BareWordGivesNull ==
    (result.op = "extractLinkedIn" /\ text \in BareLinkedInTexts) => result.str = Null

SkillsReturned == result.op = "extractSkillsWithAI"
ReturnedSkills == result.rec.primarySkills.items

\* C24: a skill whose occurrences all lie inside an email address or a URL is
\* not among the skills the skill extractor returns.
C24_NoSkillFromAddress ==
    \A e \in EmbeddedSkillTexts :
        (SkillsReturned /\ text = e.t) =>
            \A j \in 1..Len(ReturnedSkills) : ReturnedSkills[j] # e.skill

ScoreOf(skill) == calcSkillScore(this_findSkillContexts(toLowerCase(text), toLowerCase(skill)))
PlaceOf(skill, isPrimary) ==
    Least({k \in 1..Len(Vocabulary(isPrimary)) : Vocabulary(isPrimary)[k] = skill})
Before(a, b, isPrimary) ==
    \/ ScoreOf(a) > ScoreOf(b)
    \/ ScoreOf(a) = ScoreOf(b) /\ PlaceOf(a, isPrimary) < PlaceOf(b, isPrimary)
Matched(isPrimary) ==
    {k \in 1..Len(Vocabulary(isPrimary)) :
        this_findSkillContexts(toLowerCase(text), toLowerCase(Vocabulary(isPrimary)[k])) # <<>>}

\* C27: extractSkillsWithAI returns matched skills of the vocabulary, the
\* higher score first and equal scores in vocabulary order, none twice, the
\* best 8 (primary) or 6 (secondary) of all matched skills.
C27_SkillsRanked ==
    /\ result.op = "textExtractor.extractSkillsWithAI" => ~startsWith(result.str, "ReferenceError")
    /\ result.op \in {"extractSkillsWithAI"} =>
        LET cut == IF flag THEN 8 ELSE 6
            out == ReturnedSkills
        IN  /\ Len(out) = MinOf(cut, Cardinality(Matched(flag)))
            /\ \A j \in 1..Len(out) : \E k \in Matched(flag) : Vocabulary(flag)[k] = out[j]
            /\ \A i, j \in 1..Len(out) : i < j => Before(out[i], out[j], flag)
            /\ \A k \in Matched(flag) :
                   (\A j \in 1..Len(out) : out[j] # Vocabulary(flag)[k]) =>
                       Before(out[Len(out)], Vocabulary(flag)[k], flag)

\* the candidates of the three strategies for the text in hand, each with its
\* confidence (in tenths) and the place where it stands in the document
NameLines == NonEmpty([k \in 1..Len(split(text, "\n")) |-> trim(split(text, "\n")[k])])
LineCandidates(confidence) ==
    {[name |-> this_formatName(NameLines[i]), confidence |-> confidence, at |-> i] :
        i \in {j \in 1..MinOf(Len(NameLines), 8) :
                  IF confidence = 9 THEN AllCapsCandidate(NameLines[j])
                  ELSE TitleCaseCandidate(NameLines[j])}}
KeywordCandidates ==
    {[name |-> this_formatName(Group(text, exec(namePatterns[k].re, namePatterns[k].fl, text), 1)),
      confidence |-> 7,
      at |-> exec(namePatterns[k].re, namePatterns[k].fl, text).b] :
        k \in {j \in 1..Len(namePatterns) :
                  /\ test(namePatterns[j].re, namePatterns[j].fl, text)
                  /\ Truthy(Group(text, exec(namePatterns[j].re, namePatterns[j].fl, text), 1))}}
NameCandidates == LineCandidates(9) \cup LineCandidates(8) \cup KeywordCandidates

\* C25: extractNameWithAI returns the name of the candidate of highest
\* confidence, of those the one that stands earliest in the document, and
\* 'Name Not Found' when there is no candidate.
C25_BestCandidate ==
    result.op = "extractNameWithAI" =>
        IF NameCandidates = {} THEN result.str = "Name Not Found"
        ELSE \E c \in NameCandidates :
                 /\ result.str = c.name
                 /\ \A o \in NameCandidates :
                        \/ o.confidence < c.confidence
                        \/ o.confidence = c.confidence /\ c.at <= o.at

\* a line no name may come from: an address sign, a leading digit, a phone
\* number, a length out of range, or a word of the section-header, company or
\* job-title vocabularies
NotAName(line) ==
    \/ includes(line, "@")
    \/ test(Cat(<<Bol, D>>), NoFlags, line)
    \/ test(Cat(<<Lit("+"), D>>), NoFlags, line)
    \/ Len(line) < 3 \/ Len(line) > 50
    \/ \E k \in 1..Len(headerBlacklist) : includes(toLowerCase(line), headerBlacklist[k])
    \/ this_isCompanyOrInstitution(line)
    \/ this_isJobTitle(line)

\* C26: the name the rule-based name extractors return is not taken from a
\* line that holds '@', starts with a digit, holds a phone number, is shorter
\* than 3 or longer than 50 characters, or is a section header, a company or
\* a job title.
C26_NameNotFromRejectedLine ==
    result.op \in {"extractNameEnhanced", "extractNameWithAI"} =>
        \A i \in 1..Len(NameLines) :
            NotAName(NameLines[i]) => result.str # this_formatName(NameLines[i])

(***************************************************************************)
(* normalizeText applied to short texts of letters, blanks and line ends.   *)
(***************************************************************************)
MaxChars == 4
Alphabet == {"a", "b", " ", "\t", "\n", "\r"}

RECURSIVE Strings(_)
Strings(n) ==
    IF n = 0 THEN {""} ELSE Strings(n - 1) \cup {s \o c : s \in Strings(n - 1), c \in Alphabet}

NormalizeInit ==
    /\ text \in Strings(MaxChars)
    /\ flag = FALSE
    /\ today = 1
    /\ pc = "idle"
    /\ ruleBasedInfo = EmptyRecord
    /\ promises = [id \in 1..2 |-> Unissued]
    /\ aiResult = NoAI
    /\ result = NoResult
    /\ prev = NoPrev
    /\ runs = 0
    /\ ExtractorQuiet
    /\ ServerQuiet

\* normalizeText(text)
Normalize ==
    /\ result.op = "none"
    /\ result' = [op |-> "normalizeText", rec |-> EmptyRecord, str |-> this_normalizeText(text)]
    /\ UNCHANGED <<text, flag, today, pc, ruleBasedInfo, promises, aiResult, prev, runs>>
    /\ UNCHANGED <<extractorVars, serverVars>>

\* normalizeText applied to what the call before returned
NormalizeAgain ==
    /\ result.op = "normalizeText"
    /\ ~prev.valid
    /\ prev' = [NoPrev EXCEPT !.valid = TRUE, !.text = result.str]
    /\ result' = [result EXCEPT !.str = this_normalizeText(result.str)]
    /\ UNCHANGED <<text, flag, today, pc, ruleBasedInfo, promises, aiResult, runs>>
    /\ UNCHANGED <<extractorVars, serverVars>>

NormalizeNext == Normalize \/ NormalizeAgain

NormalizeSpec == NormalizeInit /\ [][NormalizeNext]_vars

\* the words of a text, and its lines that are not blank (a line ends at a
\* line feed, a carriage return, or the two together)
RECURSIVE WordsFrom(_, _, _)
WordsFrom(s, i, word) ==
    IF i > Len(s) THEN (IF word = "" THEN <<>> ELSE <<word>>)
    ELSE IF SubSeq(s, i, i) \in SpaceCh
         THEN (IF word = "" THEN <<>> ELSE <<word>>) \o WordsFrom(s, i + 1, "")
         ELSE WordsFrom(s, i + 1, word \o SubSeq(s, i, i))
RECURSIVE LineWordsFrom(_, _, _)
LineWordsFrom(s, i, line) ==
    IF i > Len(s) THEN (IF WordsFrom(line, 1, "") = <<>> THEN <<>> ELSE <<WordsFrom(line, 1, "")>>)
    ELSE IF SubSeq(s, i, i) \in LineEnd
         THEN (IF WordsFrom(line, 1, "") = <<>> THEN <<>> ELSE <<WordsFrom(line, 1, "")>>)
                  \o LineWordsFrom(s, i + 1, "")
         ELSE LineWordsFrom(s, i + 1, line \o SubSeq(s, i, i))

\* no carriage return or tab, no blank at either end of a line, no two blanks
\* in a row, no empty line
Canonical(s) ==
    /\ \A i \in 1..Len(s) : SubSeq(s, i, i) \notin {"\r", "\t"}
    /\ \A i \in 1..Len(s) :
           SubSeq(s, i, i) \in {" ", "\n"} =>
               /\ i > 1 /\ i < Len(s)
               /\ SubSeq(s, i - 1, i - 1) \notin {" ", "\n"}
               /\ SubSeq(s, i + 1, i + 1) \notin {" ", "\n"}

\* C28: the output of normalizeText has no carriage return, no empty line, no
\* blank at the ends of a line and no two whitespace characters in a row; it
\* holds the non-blank lines of the input, word for word and in order; it is
\* empty for an input without a word; and normalizeText leaves it unchanged.
C28_NormalizeCanonical ==
    result.op = "normalizeText" =>
        /\ Canonical(result.str)
        /\ LineWordsFrom(result.str, 1, "") = LineWordsFrom(text, 1, "")
        /\ WordsFrom(text, 1, "") = <<>> => result.str = ""
        /\ prev.valid => result.str = prev.text

\* normalizeText applied twice to a text of two lines, a blank before the first
C28_Witness ==
    /\ result.op = "normalizeText"
    /\ prev.valid
    /\ text = " a\rb"
    /\ result.str = "a\nb"

\* C29: clearAllCandidates returns the number of records it removes from the
\* store, records appended by parseResume while it waits included.
C29_ClearCountsEveryRecord ==
    ~clearing.active => clearing.count = clearing.i

\* C30: with several extractCandidateInfoAI calls in hand, each call whose
\* first request went to gpt-5-nano and failed has sent a second request, to
\* gpt-4o-mini, whatever the other calls did to the configured model.
C30_EveryCallRetries ==
    \A c \in IndexCalls :
        (/\ Len(calls[c].requests) >= 1
         /\ calls[c].requests[1].model = "gpt-5-nano"
         /\ calls[c].requests[1].st \in {"error", "text", "scalar"})
            => /\ Len(calls[c].requests) >= 2
               /\ calls[c].requests[2].model = "gpt-4o-mini"
====
